---- MODULE Spec2Model ----
(***************************************************************************)
(* State-machine model of mirage-ecs: the reverse proxy registry           *)
(* (reverseproxy.go), the ECS task runner (ecs.go), the purge controller   *)
(* (webapi.go) and the purge decision (Information.ShouldBePurged).        *)
(*                                                                         *)
(* Time passes in ticks of 15 s; a timer is known by its age, the ticks    *)
(* since it was created or reset.  A subdomain is a sequence of            *)
(* one-character strings, so that path.Match can be computed.              *)
(***************************************************************************)
EXTENDS Integers, Sequences, FiniteSets, TLC

\* ------------------------------------------------------------------ bounds
\* A timer's age is counted up to MaxAge ticks; an older timer counts as MaxAge old.
MaxAge == 3

\* The control channel holds at most ChanCap messages.
ChanCap == 2

\* At most MaxTasks tasks are ever run in the cluster.
MaxTasks == 3
\* ListTasks answers in at most MaxPages pages.
MaxPages == 2

\* The wall clock is followed for MaxClock steps of 30 s.
MaxClock == 3
\* At most MaxAdds Add calls are made between two Collect calls.
MaxAdds == 3

\* ApiList is called on clusters of at most MaxListed tasks.
MaxListed == 3

\* Logs is called for a subdomain of at most MaxLogTasks running tasks, whose
\* log streams answer with at most MaxEvents events, with tail up to MaxTail.
MaxLogTasks == 2
MaxEvents == 2
MaxTail == 2

\* validateSubdomain is called with every text of at most MaxSubLen characters
\* of SubChars, besides the texts the specification names.
MaxSubLen == 4

\* ------------------------------------------------------- program constants
\* var proxyHandlerLifetime = 30 * time.Second : two ticks of 15 s.
proxyHandlerLifetime == 2
\* NewReverseProxy, local mode: time.Hour * 24 * 365 * 10 ("not expire").
localHandlerLifetime == 21024000
\* PurgeMinimumDuration = 5 * time.Minute, in seconds.
PurgeMinimumDuration == 300

\* unit := time.Minute, the AccessCounter's bucket width: two steps of 30 s.
accessCounterUnit == 2

\* ------------------------------------------------------------ value sets
Ab == <<"a", "b">>
AStar == <<"a", "*">>
\* Names that are registered (launched); AStar is a glob pattern.
Names == {Ab, AStar}
\* First DNS labels of request hosts.
LookupNames == {Ab}
NoName == <<>>
\* cfg.Listen.HTTP: listen port 8080 -> target 80, listen port 8081 -> target 81.
HTTP == << [ListenPort |-> 8080, TargetPort |-> 80],
           [ListenPort |-> 8081, TargetPort |-> 81] >>
ListenPorts == {HTTP[i].ListenPort : i \in DOMAIN HTTP}
\* (ip, container target port) pairs of proxyAdd messages; no mapping targets 82.
AddInputs == {<<"ip1", 80>>, <<"ip2", 80>>, <<"ip1", 82>>}
Goroutines == {"g1", "g2"}
None == "none"

\* Values of the purge rule.  Tags and exclude_tags entries are texts of
\* one-character strings, a tag being written key:value.
Xy == <<"x", "y">>
TagKV == <<"k", ":", "v">>
TagKW == <<"k", ":", "w">>
TagJV == <<"j", ":", "v">>
TagBad == <<"k">>
Now == 1000
Requests ==
    [Duration : {299, 300, 600},
     Excludes : {<<>>, <<Ab>>, <<Xy>>},
     ExcludeTags : {<<>>, <<TagKV>>, <<TagJV>>, <<TagKV, TagKW>>, <<TagBad>>},
     ExcludeRegexp : {<<>>, <<"a", ".">>, <<"b">>, <<"x">>, <<"(">>}]
NoRequest == [Duration |-> 0, Excludes |-> <<>>, ExcludeTags |-> <<>>, ExcludeRegexp |-> <<>>]
Informations ==
    [SubDomain : {Ab},
     LastStatus : {"RUNNING", "PENDING"},
     Tags : {<<>>,
             << [Key |-> <<"k">>, Value |-> <<"v">>] >>,
             << [Key |-> <<"j">>, Value |-> <<"w">>], [Key |-> <<"k">>, Value |-> <<"w">>] >>},
     Created : {Now - 600, Now - 301, Now - 300, Now - 299}]
NoInfo == [SubDomain |-> NoName, LastStatus |-> "", Tags |-> <<>>, Created |-> 0]

\* Values of the task runner and of the purge loop.
TaskDefLists == {<<"td1">>, <<"td1", "td2">>}
\* TagValueMirage, the value of the tag ManagedBy on the tasks Mirage runs.
TagValueMirage == "Mirage"
\* The characters of subdomains in the order of their bytes.
Alphabet == <<"*", "a", "b", "x", "y">>
\* The clusters ApiList is called on: up to MaxListed running tasks, some of
\* them run by others.
ClusterTasks ==
    [SubDomain : {Ab, AStar, Xy}, TaskDef : {"td1"}, DesiredStatus : {"RUNNING"},
     ManagedBy : {TagValueMirage, "Other"}]
Clusters == UNION {[1..n -> ClusterTasks] : n \in 0..MaxListed}
LaunchNames == {Ab}
PurgeLists == {<<Ab>>, <<Ab, AStar>>}
Workers == {"w1", "w2"}
\* What GetAccessCount returns: (0, err), or the sum of the metric's values.
AccessCounts == {[err |-> TRUE, sum |-> 0], [err |-> FALSE, sum |-> 0],
                 [err |-> FALSE, sum |-> 1], [err |-> FALSE, sum |-> 2]}

\* Values of the access counter: the goroutines that serve requests and so
\* call Add, and the goroutine that publishes the metrics and so calls Collect.
Adders == {"r1", "r2"}
Collectors == {"m1"}

\* Values of Transport.RoundTrip.  Texts (bodies, URLs, error texts) are
\* sequences of one-character strings.
AuthCookieName == "mirage-ecs-auth"
OkCookie == [Name |-> AuthCookieName, Value |-> "ok"]
BadCookie == [Name |-> AuthCookieName, Value |-> "bad"]
OtherCookie == [Name |-> "session", Value |-> "ok"]
NoCookie == [Name |-> "", Value |-> ""]
CookieLists == {<<>>, <<OkCookie>>, <<BadCookie>>, <<OtherCookie>>, <<OtherCookie, OkCookie>>}
Methods == {"GET", "OPTIONS"}
UrlText == <<"h", "t", "t", "p", ":", "/", "/", "h", "/">>
NoErr == <<>>
\* Errors of the wrapped transport: texts of net and net/http.
ErrDialTimeout == <<"d", "i", "a", "l", " ", "t", "c", "p", ":", " ", "i", "/", "o",
      " ", "t", "i", "m", "e", "o", "u", "t">>
ErrHeaderTimeout ==
    <<"n", "e", "t", "/", "h", "t", "t", "p", ":", " ", "t", "i", "m",
      "e", "o", "u", "t", " ", "a", "w", "a", "i", "t", "i", "n", "g",
      " ", "r", "e", "s", "p", "o", "n", "s", "e", " ", "h", "e", "a",
      "d", "e", "r", "s">>
ErrDeadline == <<"c", "o", "n", "t", "e", "x", "t", " ", "d", "e", "a", "d", "l",
      "i", "n", "e", " ", "e", "x", "c", "e", "e", "d", "e", "d">>
ErrEOF == <<"E", "O", "F">>
Upstreams == {NoErr, ErrDialTimeout, ErrHeaderTimeout, ErrDeadline, ErrEOF}
TimeoutText == <<"t", "i", "m", "e", "o", "u", "t">>
ForbiddenText == <<"F", "o", "r", "b", "i", "d", "d", "e", "n">>
UpstreamTimeoutText == <<" ", "u", "p", "s", "t", "r", "e", "a", "m", " ", "t", "i", "m",
      "e", "o", "u", "t", ":", " ">>
OkText == <<"O", "K">>
\* A call of RoundTrip: the Transport (its Subdomain, whether it has an
\* AuthCookieValidateFunc), the request, and what the wrapped transport answers.
Calls ==
    [Subdomain : {Ab}, validator : BOOLEAN, Method : Methods, Cookies : CookieLists,
     up : Upstreams]
NoRq == [Subdomain |-> NoName, validator |-> FALSE, Method |-> "", Cookies |-> <<>>,
         up |-> NoErr]
NoResponse == [StatusCode |-> 0, Body |-> <<>>]
NoResult == [state |-> "none", resp |-> NoResponse, err |-> NoErr, invoked |-> 0]
Pending == [NoResult EXCEPT !.state = "pending"]

VARIABLES
    localMode,      \* cfg.localMode
    domains,        \* ReverseProxy.domains: names in registration order
    domainMap,      \* ReverseProxy.domainMap: name -> listen port -> addr -> handler
    accessCounters, \* names that own an AccessCounter
    rd,             \* per goroutine: the FindHandler call in progress (holds mu.RLock)
    crashed,        \* the runtime aborted: "concurrent map iteration and map write"
    lastRemoved     \* history: the name the latest registry write removed after an
                    \* AddSubdomain of it (NoName when the latest write was no such removal)

VARIABLES
    ch,             \* the proxy control channel: the messages sent and not yet received
    lastSent        \* history: per name, what the producer sent last ("none", "Add",
                    \* or "AddRemove": a Remove sent after an Add)

VARIABLES
    req,            \* the APIPurgeRequest of a purge
    info,           \* the Information of one listed task
    now,            \* time.Now() when the rule is applied, in seconds
    verdict         \* "pending", "invalid" (Validate failed), "purge" or "keep"

VARIABLES
    tasks,          \* the cluster's managed tasks, in the order RunTask made them
    api,            \* the Launch call of the API, and the arguments of the latest one
    tb,             \* the TerminateBySubdomain call in progress
    gens            \* history: successful Launch calls in a row with the same arguments

VARIABLES
    mu,             \* WebApi.mu is locked
    pw              \* per purgeSubdomains goroutine: its position in the function

VARIABLES
    clock,          \* the wall clock (time.Now()), in seconds
    count,          \* the bucket map of the AccessCounter of subdomain ab
    cmu,            \* the AccessCounter's mutex: the goroutine that holds it, or "none"
    cg,             \* per goroutine: its position in AccessCounter.Add or Collect
    collected,      \* what the latest Collect returned
    since           \* history: per bucket, the Add calls since the previous Collect

VARIABLES
    rq,             \* the request Transport.RoundTrip is called with and the Transport
    resp            \* what the latest RoundTrip call returned

VARIABLES
    listed          \* what the latest ApiList call got from List

VARIABLES
    lc,             \* the ECS.Logs call: what the services answer to it and what it returned
    vs,             \* the validateSubdomain call: its argument and its result
    tp,             \* the TaskParameter conversions: their arguments and results
    pg              \* the purge configuration, the latest /api/purge call and purge run

VARIABLES
    qr,             \* the latest Subdomains() or Exists() call and its result
    sv              \* per goroutine: its ServeHTTPWithPort call and the response

VARIABLES
    pr,             \* the purge run: the tasks as purge listed them, its caller and its goroutine
    lh              \* the launch handler: the request and what became of it

regVars == <<localMode, domains, domainMap, accessCounters, rd, crashed, lastRemoved>>
chVars == <<ch, lastSent>>
ruleVars == <<req, info, now, verdict>>
ecsVars == <<tasks, api, tb, gens>>
purgeVars == <<mu, pw>>
cntVars == <<clock, count, cmu, cg, collected, since>>
trVars == <<rq, resp>>
listVars == <<listed>>
fnVars == <<lc, vs, tp, pg>>
askVars == <<qr, sv>>
runVars == <<pr, lh>>
vars == <<regVars, chVars, ruleVars, ecsVars, purgeVars, cntVars, trVars, listVars, fnVars, askVars,
          runVars>>

\* ---------------------------------------------------------------- helpers
EmptyMap == [x \in {} |-> None]
Put(f, k, v) == [x \in DOMAIN f \cup {k} |-> IF x = k THEN v ELSE f[x]]
Del(f, k) == [x \in DOMAIN f \ {k} |-> f[x]]

\* path.Match for patterns made of literals, '*' and '?'.
RECURSIVE Match(_, _)
Match(pattern, name) ==
    IF pattern = <<>> THEN name = <<>>
    ELSE IF Head(pattern) = "*"
         THEN \E k \in 0..Len(name) : Match(Tail(pattern), SubSeq(name, k + 1, Len(name)))
    ELSE IF name = <<>> THEN FALSE
    ELSE IF Head(pattern) = "?" THEN Match(Tail(pattern), Tail(name))
    ELSE Head(pattern) = Head(name) /\ Match(Tail(pattern), Tail(name))

\* ------------------------------------------------------------ proxyHandler
Lifetime == IF localMode THEN localHandlerLifetime ELSE proxyHandlerLifetime

\* The timer fires Lifetime after it was created or last reset.
fired(h) == h.age >= Lifetime

\* newProxyHandler: time.NewTimer(proxyHandlerLifetime).  drained: the value the
\* fired timer sends on timer.C has been received.  extended (history): the
\* handler is one that extend() was called on, not a newly made one.
newProxyHandler == [age |-> 0, drained |-> FALSE, extended |-> FALSE]

\* alive(): a non-blocking receive on timer.C.  It fails (the handler counts as
\* alive) while the timer has not fired, and also after the one value the fired
\* timer delivers has been received.
alive(h) == ~(fired(h) /\ ~h.drained)

\* The handler after alive(): a successful receive takes the timer's value.
afterAlive(h) == IF fired(h) THEN [h EXCEPT !.drained = TRUE] ELSE h

\* Variant: extend() leaves the timer running as it is.
extendNoReset(h) == [h EXCEPT !.extended = TRUE]

\* extend(): timer.Reset(proxyHandlerLifetime).
extend(h) == [h EXCEPT !.age = 0, !.drained = FALSE, !.extended = TRUE]

\* --------------------------------------------------------- proxyHandlers
makeProxyHandlers == [p \in ListenPorts |-> EmptyMap]

\* proxyHandlers.exists: its result, and the map it leaves behind.
existsResult(ph, port, addr) == addr \in DOMAIN ph[port] /\ alive(ph[port][addr])

existsEffect(ph, port, addr) ==
    IF addr \notin DOMAIN ph[port] THEN ph
    ELSE IF alive(ph[port][addr])
         THEN [ph EXCEPT ![port] = Put(@, addr, extend(ph[port][addr]))]
    ELSE [ph EXCEPT ![port] = Del(@, addr)]

add(ph, port, addr) == [ph EXCEPT ![port] = Put(@, addr, newProxyHandler)]

\* ---------------------------------------------------------- ReverseProxy
\* Variant: the loop does not test the mapping's target port.
RECURSIVE AddLoopAnyTarget(_, _, _, _, _)
AddLoopAnyTarget(ph, proxy, i, addr, targetPort) ==
    IF i > Len(HTTP) THEN [ph |-> ph, proxy |-> proxy]
    ELSE IF existsResult(ph, HTTP[i].ListenPort, addr)
         THEN AddLoopAnyTarget(existsEffect(ph, HTTP[i].ListenPort, addr), TRUE, i + 1, addr, targetPort)
    ELSE AddLoopAnyTarget(add(existsEffect(ph, HTTP[i].ListenPort, addr), HTTP[i].ListenPort, addr),
                          TRUE, i + 1, addr, targetPort)

\* The loop of AddSubdomain over cfg.Listen.HTTP, from mapping i on.
RECURSIVE AddLoop(_, _, _, _, _)
AddLoop(ph, proxy, i, addr, targetPort) ==
    IF i > Len(HTTP) THEN [ph |-> ph, proxy |-> proxy]
    ELSE IF HTTP[i].TargetPort # targetPort /\ ~localMode
         THEN AddLoop(ph, proxy, i + 1, addr, targetPort)
    ELSE IF existsResult(ph, HTTP[i].ListenPort, addr)
         THEN AddLoop(existsEffect(ph, HTTP[i].ListenPort, addr), TRUE, i + 1, addr, targetPort)
    ELSE AddLoop(add(existsEffect(ph, HTTP[i].ListenPort, addr), HTTP[i].ListenPort, addr),
                 TRUE, i + 1, addr, targetPort)

Registered(s) == s \in DOMAIN domainMap

InDomains(s) == \E i \in DOMAIN domains : domains[i] = s

RECURSIVE RemoveFirst(_, _)
RemoveFirst(seq, s) ==
    IF seq = <<>> THEN <<>>
    ELSE IF Head(seq) = s THEN Tail(seq)
    ELSE <<Head(seq)>> \o RemoveFirst(Tail(seq), s)

NoReader == \A g \in Goroutines : rd[g].pc = "idle"

Idle == [pc |-> "idle", sub |-> NoName, port |-> 0, name |-> NoName, cur |-> None, rv |-> None]

AddSubdomain(s, ip, targetPort) ==
    /\ ~crashed
    /\ NoReader
    /\ LET addr == <<ip, targetPort>>
           ph0 == IF Registered(s) THEN domainMap[s] ELSE makeProxyHandlers
           r == AddLoop(ph0, FALSE, 1, addr, targetPort)
       IN  /\ accessCounters' = accessCounters \cup {s}
           /\ IF ~r.proxy
              THEN UNCHANGED <<domainMap, domains>>
              ELSE /\ domainMap' = Put(domainMap, s, r.ph)
                   /\ domains' = IF InDomains(s) THEN domains ELSE Append(domains, s)
           /\ lastRemoved' = NoName
    /\ UNCHANGED <<localMode, rd, crashed>>

\* Variant: the name leaves domains and accessCounters but stays in domainMap.
RemoveSubdomainKeepMap(s) ==
    /\ ~crashed
    /\ NoReader
    /\ accessCounters' = accessCounters \ {s}
    /\ domains' = RemoveFirst(domains, s)
    /\ lastRemoved' = IF s \in accessCounters THEN s ELSE NoName
    /\ UNCHANGED <<localMode, domainMap, rd, crashed>>

RemoveSubdomain(s) ==
    /\ ~crashed
    /\ NoReader
    /\ domainMap' = Del(domainMap, s)
    /\ accessCounters' = accessCounters \ {s}
    /\ domains' = RemoveFirst(domains, s)
    /\ lastRemoved' = IF s \in accessCounters THEN s ELSE NoName
    /\ UNCHANGED <<localMode, rd, crashed>>

\* The name FindHandler resolves a subdomain to: the subdomain itself when it is
\* registered, else the first registered name whose glob matches it.
RECURSIVE FirstMatch(_, _)
FirstMatch(seq, s) ==
    IF seq = <<>> THEN NoName
    ELSE IF Match(Head(seq), s) THEN Head(seq)
    ELSE FirstMatch(Tail(seq), s)

\* Variant: the globs are tried without the exact lookup.
ResolveGlobOnly(s) == FirstMatch(domains, s)

Resolve(s) == IF Registered(s) THEN s ELSE FirstMatch(domains, s)

\* One iteration of "for ipaddress, handler := range ph[port]" in the call c of
\* goroutine g: the map yields some entry and handler.alive() receives from its
\* timer; a live handler is returned, a dead one is about to be deleted.  With
\* no entry left the loop ends and Handler returns (nil, false).
RangeStep(g, c) ==
    LET m == domainMap[c.name][c.port]
    IN  IF DOMAIN m = {}
        THEN /\ rd' = [rd EXCEPT ![g] = [c EXCEPT !.pc = "ret", !.cur = None, !.rv = None]]
             /\ UNCHANGED domainMap
        ELSE \E a \in DOMAIN m :
                IF alive(m[a])
                THEN /\ rd' = [rd EXCEPT ![g] = [c EXCEPT !.pc = "ret", !.cur = None, !.rv = a]]
                     /\ UNCHANGED domainMap
                ELSE /\ rd' = [rd EXCEPT ![g] = [c EXCEPT !.pc = "delete", !.cur = a]]
                     /\ domainMap' = [domainMap EXCEPT ![c.name][c.port][a] = afterAlive(@)]

\* Another goroutine is about to delete from the inner map that the call c
\* works on.
Racing(g, c) ==
    \E g2 \in Goroutines \ {g} :
        /\ rd[g2].pc = "delete"
        /\ rd[g2].name = c.name
        /\ rd[g2].port = c.port

\* The map is read or written while another goroutine writes it: the runtime
\* may abort the process (fatal error: concurrent map iteration and map write,
\* or concurrent map writes).
Fatal(g, c) ==
    /\ Racing(g, c)
    /\ crashed' = TRUE
    /\ UNCHANGED <<rd, domainMap>>

\* FindHandler up to the first iteration of the range loop in
\* proxyHandlers.Handler: r.mu.RLock(), the exact lookup, the glob fallback, the
\* len(handlers) == 0 test and the first entry the map yields.
FindHandler(g, s, port) ==
    /\ ~crashed
    /\ rd[g].pc = "idle"
    /\ LET name == Resolve(s)
           call == [pc |-> "range", sub |-> s, port |-> port, name |-> name,
                    cur |-> None, rv |-> None]
       IN  IF name = NoName
           THEN /\ rd' = [rd EXCEPT ![g] = [call EXCEPT !.pc = "ret"]]
                /\ UNCHANGED <<domainMap, crashed>>
           ELSE \/ RangeStep(g, call) /\ UNCHANGED crashed
                \/ Fatal(g, call)
    /\ UNCHANGED <<localMode, domains, accessCounters, lastRemoved>>

\* A further iteration of the range loop, after a dead entry was deleted.
HandlerNext(g) ==
    /\ ~crashed
    /\ rd[g].pc = "range"
    /\ \/ RangeStep(g, rd[g]) /\ UNCHANGED crashed
       \/ Fatal(g, rd[g])
    /\ UNCHANGED <<localMode, domains, accessCounters, lastRemoved>>

\* Variant: the cleanup empties the inner map instead of deleting the one dead
\* entry.
HandlerDeleteAll(g) ==
    /\ ~crashed
    /\ rd[g].pc = "delete"
    /\ \/ /\ domainMap' = [domainMap EXCEPT ![rd[g].name][rd[g].port] = EmptyMap]
          /\ rd' = [rd EXCEPT ![g].pc = "range", ![g].cur = None]
          /\ UNCHANGED crashed
       \/ Fatal(g, rd[g])
    /\ UNCHANGED <<localMode, domains, accessCounters, lastRemoved>>

\* delete(ph[port], ipaddress), a map write made under the read lock.
HandlerDelete(g) ==
    /\ ~crashed
    /\ rd[g].pc = "delete"
    /\ \/ /\ domainMap' = [domainMap EXCEPT ![rd[g].name][rd[g].port] = Del(@, rd[g].cur)]
          /\ rd' = [rd EXCEPT ![g].pc = "range", ![g].cur = None]
          /\ UNCHANGED crashed
       \/ Fatal(g, rd[g])
    /\ UNCHANGED <<localMode, domains, accessCounters, lastRemoved>>

\* FindHandler returns rd[g].rv to ServeHTTPWithPort: r.mu.RUnlock().
FindReturn(g) ==
    /\ ~crashed
    /\ rd[g].pc = "ret"
    /\ rd' = [rd EXCEPT ![g] = Idle]
    /\ UNCHANGED <<localMode, domains, domainMap, accessCounters, crashed, lastRemoved>>

\* One tick passes: every timer grows older.
older(h) == [h EXCEPT !.age = IF @ < MaxAge THEN @ + 1 ELSE @]

Tick ==
    /\ ~crashed
    /\ domainMap' = [n \in DOMAIN domainMap |->
                        [p \in ListenPorts |->
                            [a \in DOMAIN domainMap[n][p] |-> older(domainMap[n][p][a])]]]
    /\ UNCHANGED <<localMode, domains, accessCounters, rd, crashed, lastRemoved>>

\* Variant: proxyRemove is not handled and falls to the default case.
ModifyAddOnly(action) ==
    IF action.Action = "Add"
    THEN AddSubdomain(action.Subdomain, action.IPAddress, action.Port)
    ELSE UNCHANGED regVars

\* ReverseProxy.Modify: one control message applied to the registry.
Modify(action) ==
    IF action.Action = "Add"
    THEN AddSubdomain(action.Subdomain, action.IPAddress, action.Port)
    ELSE IF action.Action = "Remove"
    THEN RemoveSubdomain(action.Subdomain)
    ELSE UNCHANGED regVars

\* ------------------------------------------- queries and requests
\* (ip, container target port) pairs of the Add calls made beside queries and
\* requests: both mappings are targeted, and a port that no mapping targets.
RegInputs == {<<"ip1", 80>>, <<"ip2", 80>>, <<"ip1", 81>>, <<"ip1", 82>>}

\* The names Exists is asked for.
AskNames == {Ab, AStar, <<"x", "y">>}

NoQuery == [op |-> "none", s |-> NoName, names |-> <<>>, ok |-> FALSE]

\* Subdomains(): a copy of r.domains, made under the read lock.
Subdomains ==
    /\ ~crashed
    /\ qr' = [NoQuery EXCEPT !.op = "Subdomains", !.names = [i \in 1..Len(domains) |-> domains[i]]]
    /\ UNCHANGED <<regVars, sv>>

\* Variant: only the exact lookup is made.
ExistsExact(s) ==
    /\ ~crashed
    /\ qr' = [NoQuery EXCEPT !.op = "Exists", !.s = s, !.ok = Registered(s)]
    /\ UNCHANGED <<regVars, sv>>

\* Exists(subdomain): the exact lookup in domainMap, then path.Match of every
\* name of r.domains, under the read lock.
Exists(s) ==
    /\ ~crashed
    /\ qr' = [NoQuery EXCEPT !.op = "Exists", !.s = s,
                             !.ok = Registered(s) \/ \E i \in DOMAIN domains : Match(domains[i], s)]
    /\ UNCHANGED <<regVars, sv>>

\* The Host headers of the requests.
Hosts == { <<"A", "B", ".", "c", "o", "m">>, <<"x", "y", ".", "c", "o", "m">> }

\* strings.Split(req.Host, ".")[0]
RECURSIVE FirstLabel(_)
FirstLabel(host) ==
    IF host = <<>> \/ Head(host) = "." THEN <<>>
    ELSE <<Head(host)>> \o FirstLabel(Tail(host))

\* strings.ToLower on the characters of the hosts.
ToLower(s) ==
    [i \in DOMAIN s |-> IF s[i] = "A" THEN "a" ELSE IF s[i] = "B" THEN "b" ELSE s[i]]

NoServe == [host |-> <<>>, port |-> 0, status |-> 0, upstream |-> None]

\* ServeHTTPWithPort up to the first steps of FindHandler, with the lowercased
\* first label of the Host header.
ServeHTTPWithPort(g, host, port) ==
    /\ FindHandler(g, ToLower(FirstLabel(host)), port)
    /\ sv' = [sv EXCEPT ![g] = [NoServe EXCEPT !.host = host, !.port = port]]
    /\ UNCHANGED qr

\* The end of ServeHTTPWithPort: FindHandler returns; with a handler the
\* request is passed to handler.ServeHTTP, which forwards it to the handler's
\* upstream; without one http.NotFound answers 404.
ServeReturn(g) ==
    /\ FindReturn(g)
    /\ sv' = [sv EXCEPT ![g].status = IF rd[g].rv = None THEN 404 ELSE 200,
                        ![g].upstream = rd[g].rv]
    /\ UNCHANGED qr

\* ------------------------------------------------------- the control channel
\* &proxyControl{Action: proxyAdd, ...} and &proxyControl{Action: proxyRemove,
\* Subdomain: s}, whose other fields keep their zero values.
AddMsg(s, ip, port) == [Action |-> "Add", Subdomain |-> s, IPAddress |-> ip, Port |-> port]
RemoveMsg(s) == [Action |-> "Remove", Subdomain |-> s, IPAddress |-> "", Port |-> 0]

Msgs == {AddMsg(s, in[1], in[2]) : s \in Names, in \in AddInputs} \cup {RemoveMsg(s) : s \in Names}

sentAfter(m) ==
    [lastSent EXCEPT ![m.Subdomain] =
        IF m.Action = "Add" THEN "Add"
        ELSE IF @ = "none" THEN "none" ELSE "AddRemove"]

\* proxyControlCh <- m: the send completes when the channel has room.
SendProxyControl(m) ==
    /\ Len(ch) < ChanCap
    /\ ch' = Append(ch, m)
    /\ lastSent' = sentAfter(m)

\* The sync loop of the registry, the channel's one consumer: it receives the
\* oldest message and hands it to Modify.
ReceiveProxyControl ==
    /\ ch # <<>>
    /\ Modify(Head(ch))
    /\ ch' = Tail(ch)
    /\ UNCHANGED lastSent

\* ------------------------------------------------------------ the purge rule
\* strings.SplitN(s, ":", 2): the text before the first colon and the text after
\* it; one part only when s holds no colon.
RECURSIVE IndexColon(_, _)
IndexColon(s, i) ==
    IF i > Len(s) THEN 0
    ELSE IF s[i] = ":" THEN i
    ELSE IndexColon(s, i + 1)

SplitN2(s) ==
    LET i == IndexColon(s, 1)
    IN  IF i = 0 THEN <<s>>
        ELSE <<SubSeq(s, 1, i - 1), SubSeq(s, i + 1, Len(s))>>

\* The loop of Validate over exclude_tags, from entry i on: the map built so
\* far, a later entry replacing an earlier one with the same key.
RECURSIVE TagsMap(_, _, _)
TagsMap(excludeTags, i, acc) ==
    IF i > Len(excludeTags) THEN [ok |-> TRUE, map |-> acc]
    ELSE LET p == SplitN2(excludeTags[i])
         IN  IF Len(p) # 2 THEN [ok |-> FALSE, map |-> acc]
             ELSE TagsMap(excludeTags, i + 1, Put(acc, p[1], p[2]))

\* regexp.Compile for patterns made of literals and '.'; a pattern holding an
\* unclosed '(' does not compile.
Compiles(re) == \A i \in DOMAIN re : re[i] # "("

\* Regexp.MatchString: the pattern matches some substring of s.
MatchString(re, s) ==
    \E k \in 0..(Len(s) - Len(re)) :
        \A j \in DOMAIN re : re[j] = "." \/ re[j] = s[k + j]

NoRegexp == <<>>

\* APIPurgeRequest.Validate: the PurgeParams, or an error.
Validate(r) ==
    LET tm == TagsMap(r.ExcludeTags, 1, EmptyMap)
    IN  IF r.Duration < PurgeMinimumDuration THEN [ok |-> FALSE]
        ELSE IF ~tm.ok THEN [ok |-> FALSE]
        ELSE IF r.ExcludeRegexp # NoRegexp /\ ~Compiles(r.ExcludeRegexp) THEN [ok |-> FALSE]
        ELSE [ok |-> TRUE,
              Duration |-> r.Duration,
              Excludes |-> r.Excludes,
              ExcludeTags |-> r.ExcludeTags,
              ExcludeRegexp |-> r.ExcludeRegexp,
              excludesMap |-> {r.Excludes[i] : i \in DOMAIN r.Excludes},
              excludeTagsMap |-> tm.map]

\* Variant: the exclude tags are not consulted.
ShouldBePurgedNoTags(i, p, t) ==
    IF i.LastStatus # "RUNNING" THEN FALSE
    ELSE IF i.SubDomain \in p.excludesMap THEN FALSE
    ELSE IF p.ExcludeRegexp # NoRegexp /\ MatchString(p.ExcludeRegexp, i.SubDomain) THEN FALSE
    ELSE IF i.Created > t - p.Duration THEN FALSE
    ELSE TRUE

\* Variant: a task created exactly at now - duration counts as recent.
ShouldBePurgedStrict(i, p, t) ==
    IF i.LastStatus # "RUNNING" THEN FALSE
    ELSE IF i.SubDomain \in p.excludesMap THEN FALSE
    ELSE IF \E n \in DOMAIN i.Tags :
                /\ i.Tags[n].Key \in DOMAIN p.excludeTagsMap
                /\ p.excludeTagsMap[i.Tags[n].Key] = i.Tags[n].Value THEN FALSE
    ELSE IF p.ExcludeRegexp # NoRegexp /\ MatchString(p.ExcludeRegexp, i.SubDomain) THEN FALSE
    ELSE IF i.Created >= t - p.Duration THEN FALSE
    ELSE TRUE

\* Information.ShouldBePurged at time t: begin is t - p.Duration, and
\* info.Created.After(begin) is Created > begin.
ShouldBePurged(i, p, t) ==
    IF i.LastStatus # "RUNNING" THEN FALSE
    ELSE IF i.SubDomain \in p.excludesMap THEN FALSE
    ELSE IF \E n \in DOMAIN i.Tags :
                /\ i.Tags[n].Key \in DOMAIN p.excludeTagsMap
                /\ p.excludeTagsMap[i.Tags[n].Key] = i.Tags[n].Value THEN FALSE
    ELSE IF p.ExcludeRegexp # NoRegexp /\ MatchString(p.ExcludeRegexp, i.SubDomain) THEN FALSE
    ELSE IF i.Created > t - p.Duration THEN FALSE
    ELSE TRUE

\* One task of a purge run: the request is validated (ApiPurge) and the rule is
\* applied to the task (purge).
Decide ==
    /\ verdict = "pending"
    /\ req # NoRequest
    /\ LET p == Validate(req)
       IN  verdict' = IF ~p.ok THEN "invalid"
                      ELSE IF ShouldBePurged(info, p, now) THEN "purge"
                      ELSE "keep"
    /\ UNCHANGED <<req, info, now>>

\* ---------------------------------------------------------- the task runner
\* The ARNs ListTasks reports for desired status RUNNING.
RunningIds == {i \in DOMAIN tasks : tasks[i].DesiredStatus = "RUNNING"}

\* The ways ListTasks may cut its answer into pages: each ARN is on one page,
\* and a page may hold no ARN at all.
Pagings(ids) ==
    {pages \in UNION {[1..n -> SUBSET ids] : n \in 1..MaxPages} :
        /\ UNION {pages[i] : i \in DOMAIN pages} = ids
        /\ \A i, j \in DOMAIN pages : i # j => pages[i] \cap pages[j] = {}}

\* The tasks among ids that carry the tag ManagedBy=Mirage.
Managed(ids) == {id \in ids : tasks[id].ManagedBy = TagValueMirage}

\* Variant: the ManagedBy tag is not looked at.
ListLoopAll(pages, i, infos) ==
    LET RECURSIVE Loop(_, _)
        Loop(k, acc) ==
            IF pages[k] = {} THEN {}
            ELSE IF k = Len(pages) THEN acc \cup pages[k]
            ELSE Loop(k + 1, acc \cup pages[k])
    IN  Loop(i, infos)

\* The loop of List from page i on, with the tasks gathered so far: a page
\* without ARNs makes List return an empty list, a page without NextToken (the
\* last one) ends the loop.  Tasks not managed by Mirage are skipped.
RECURSIVE ListLoop(_, _, _)
ListLoop(pages, i, infos) ==
    IF pages[i] = {} THEN {}
    ELSE IF i = Len(pages) THEN infos \cup Managed(pages[i])
    ELSE ListLoop(pages, i + 1, infos \cup Managed(pages[i]))

\* The tasks List returns; their order is that of sortSlice.
List(pages) == ListLoop(pages, 1, {})

\* Go's s1 < s2 on strings: bytewise, a proper prefix being smaller.
Rank(c) == CHOOSE k \in DOMAIN Alphabet : Alphabet[k] = c

RECURSIVE Less(_, _)
Less(s1, s2) ==
    IF s2 = <<>> THEN FALSE
    ELSE IF s1 = <<>> THEN TRUE
    ELSE IF Head(s1) = Head(s2) THEN Less(Tail(s1), Tail(s2))
    ELSE Rank(Head(s1)) < Rank(Head(s2))

\* The less function of List: infos[i].SubDomain < infos[j].SubDomain.
less(i, j) == Less(tasks[i].SubDomain, tasks[j].SubDomain)

\* sort.Slice on a short slice is an insertion sort: each element moves left
\* while it is less than its left neighbour.
RECURSIVE Insert(_, _)
Insert(sorted, x) ==
    IF sorted = <<>> THEN <<x>>
    ELSE IF less(x, sorted[Len(sorted)])
         THEN Append(Insert(SubSeq(sorted, 1, Len(sorted) - 1), x), sorted[Len(sorted)])
    ELSE Append(sorted, x)

RECURSIVE sortFrom(_, _)
sortFrom(sorted, rest) ==
    IF rest = <<>> THEN sorted ELSE sortFrom(Insert(sorted, Head(rest)), Tail(rest))

sortSlice(infos) == sortFrom(<<>>, infos)

\* The orders in which DescribeTasks may report the tasks of a set.
Orders(ids) ==
    {o \in [1..Cardinality(ids) -> ids] : \A i, j \in DOMAIN o : i # j => o[i] # o[j]}

NotListed == [state |-> "none", infos |-> <<>>]

\* The API handler ApiList: runner.List(ctx, statusRunning) fails, or returns
\* the managed tasks sorted by subdomain.
ApiList ==
    \E pages \in Pagings(RunningIds), failed \in BOOLEAN :
        IF failed
        THEN listed' = [state |-> "error", infos |-> <<>>]
        ELSE \E o \in Orders(List(pages)) :
                listed' = [state |-> "ok", infos |-> sortSlice(o)]

\* find: the listed tasks of the subdomain.
find(s, pages) == {i \in List(pages) : tasks[i].SubDomain = s}

NoCall == [pc |-> "idle", caller |-> "", sub |-> NoName, found |-> FALSE, infos |-> {},
           todo |-> {}, sent |-> FALSE, err |-> FALSE]

\* A caller enters TerminateBySubdomain(s).
calling(caller, s) == [NoCall EXCEPT !.pc = "find", !.caller = caller, !.sub = s]

\* TerminateBySubdomain, its call of find: an error of List ends the call.
TBFind ==
    /\ tb.pc = "find"
    /\ \E pages \in Pagings(RunningIds), failed \in BOOLEAN :
          tb' = IF failed THEN [tb EXCEPT !.pc = "done", !.err = TRUE]
                ELSE [tb EXCEPT !.pc = "run", !.found = TRUE,
                                !.infos = find(tb.sub, pages),
                                !.todo = find(tb.sub, pages)]
    /\ UNCHANGED <<tasks, api, gens, ch, lastSent>>

\* The errgroup goroutine that sends proxyRemove on the control channel.
TBSend ==
    /\ tb.pc = "run"
    /\ ~tb.sent
    /\ SendProxyControl(RemoveMsg(tb.sub))
    /\ tb' = [tb EXCEPT !.sent = TRUE]
    /\ UNCHANGED <<tasks, api, gens>>

\* Variant: the first Terminate that fails ends the call.
TBTerminateAborts(id) ==
    /\ tb.pc = "run"
    /\ id \in tb.todo
    /\ \E ok \in BOOLEAN :
          /\ tasks' = IF ok THEN [tasks EXCEPT ![id].DesiredStatus = "STOPPED"] ELSE tasks
          /\ tb' = IF ok THEN [tb EXCEPT !.todo = @ \ {id}]
                   ELSE [tb EXCEPT !.pc = "done", !.err = TRUE]
    /\ UNCHANGED <<api, gens, ch, lastSent>>

\* One errgroup goroutine of the loop over infos: Terminate(info.ID), a
\* StopTask call that succeeds or fails.
TBTerminate(id) ==
    /\ tb.pc = "run"
    /\ id \in tb.todo
    /\ \E ok \in BOOLEAN :
          /\ tasks' = IF ok THEN [tasks EXCEPT ![id].DesiredStatus = "STOPPED"] ELSE tasks
          /\ tb' = [tb EXCEPT !.todo = @ \ {id}, !.err = @ \/ ~ok]
    /\ UNCHANGED <<api, gens, ch, lastSent>>

\* Variant: eg.Wait() waits for the Terminate goroutines only.
TBWaitTerminates ==
    /\ tb.pc = "run"
    /\ tb.todo = {}
    /\ tb' = [tb EXCEPT !.pc = "done"]
    /\ UNCHANGED <<tasks, api, gens, ch, lastSent>>

\* eg.Wait(): every goroutine of the group has returned.
TBWait ==
    /\ tb.pc = "run"
    /\ tb.sent
    /\ tb.todo = {}
    /\ tb' = [tb EXCEPT !.pc = "done"]
    /\ UNCHANGED <<tasks, api, gens, ch, lastSent>>

\* The API handler terminate calls TerminateBySubdomain(s) ...
ApiTerminate(s) ==
    /\ api.pc = "idle"
    /\ tb.pc = "idle"
    /\ tb' = calling("terminate", s)
    /\ gens' = 0
    /\ UNCHANGED <<tasks, api, ch, lastSent>>

\* ... and answers when the call has returned.
ApiTerminated ==
    /\ tb.pc = "done"
    /\ tb.caller = "terminate"
    /\ tb' = NoCall
    /\ UNCHANGED <<tasks, api, gens, ch, lastSent>>

\* found is history: the tasks the find of the latest Launch returned.
NoLaunch == [pc |-> "idle", sub |-> NoName, taskdefs |-> <<>>, todo |-> {}, err |-> FALSE,
             found |-> {}]

\* Launch(s, option, taskdefs...), its call of find: an error of List ends
\* Launch, tasks found make it call TerminateBySubdomain, and with no task
\* found it goes on to launch.
Launch(s, taskdefs) ==
    /\ api.pc = "idle"
    /\ tb.pc = "idle"
    /\ \E pages \in Pagings(RunningIds), failed \in BOOLEAN :
          LET call == [pc |-> "launch", sub |-> s, taskdefs |-> taskdefs,
                       todo |-> DOMAIN taskdefs, err |-> FALSE,
                       found |-> IF failed THEN {} ELSE find(s, pages)]
              same == api.sub = s /\ api.taskdefs = taskdefs
          IN  IF failed
              THEN /\ api' = [call EXCEPT !.pc = "idle", !.todo = {}]
                   /\ gens' = 0
                   /\ UNCHANGED tb
              ELSE /\ gens' = IF same THEN gens ELSE 0
                   /\ IF find(s, pages) # {}
                      THEN /\ api' = [call EXCEPT !.pc = "terminate"]
                           /\ tb' = calling("launch", s)
                      ELSE /\ api' = call
                           /\ UNCHANGED tb
    /\ UNCHANGED <<tasks, ch, lastSent>>

\* Launch after its TerminateBySubdomain call: an error ends Launch.
LaunchTerminated ==
    /\ api.pc = "terminate"
    /\ tb.pc = "done"
    /\ tb.caller = "launch"
    /\ tb' = NoCall
    /\ IF tb.err
       THEN api' = [api EXCEPT !.pc = "idle", !.todo = {}] /\ gens' = 0
       ELSE api' = [api EXCEPT !.pc = "launch"] /\ UNCHANGED gens
    /\ UNCHANGED <<tasks, ch, lastSent>>

\* launchTask for the n-th taskdef, one errgroup goroutine of Launch: RunTask
\* starts one task, or fails.
launchTask(n) ==
    /\ api.pc = "launch"
    /\ n \in api.todo
    /\ \E ok \in BOOLEAN :
          /\ ok => Len(tasks) < MaxTasks
          /\ tasks' = IF ok
                       THEN Append(tasks, [SubDomain |-> api.sub, TaskDef |-> api.taskdefs[n],
                                           DesiredStatus |-> "RUNNING",
                                           ManagedBy |-> TagValueMirage])
                       ELSE tasks
          /\ api' = [api EXCEPT !.todo = @ \ {n}, !.err = @ \/ ~ok]
    /\ UNCHANGED <<tb, gens, ch, lastSent>>

\* Variant: Launch returns as soon as one launchTask has returned.
LaunchWaitAny ==
    /\ api.pc = "launch"
    /\ api.todo # DOMAIN api.taskdefs
    /\ api' = [api EXCEPT !.pc = "idle", !.err = FALSE]
    /\ gens' = IF api.err THEN 0 ELSE gens + 1
    /\ UNCHANGED <<tasks, tb, ch, lastSent>>

\* eg.Wait() of Launch: every launchTask has returned.
LaunchWait ==
    /\ api.pc = "launch"
    /\ api.todo = {}
    /\ api' = [api EXCEPT !.pc = "idle", !.err = FALSE]
    /\ gens' = IF api.err THEN 0 ELSE gens + 1
    /\ UNCHANGED <<tasks, tb, ch, lastSent>>

\* ------------------------------------------------------------ the purge loop
\* sums and termd are history: what GetAccessCount returned for the subdomains
\* handled so far in this run, and the positions TerminateBySubdomain was called for.
NoPurge == [pc |-> "idle", subdomains |-> <<>>, i |-> 0, skipped |-> FALSE, calls |-> 0,
            sums |-> <<>>, termd |-> {}]

\* purge: go api.purgeSubdomains(context.Background(), terminates, p.Duration).
PurgeStart(w, subdomains) ==
    /\ pw[w].pc = "idle"
    /\ pw' = [pw EXCEPT ![w] = [NoPurge EXCEPT !.pc = "trylock", !.subdomains = subdomains,
                                               !.i = 1]]
    /\ UNCHANGED <<mu, ecsVars, chVars>>

\* Variant: the lock is taken whether it is held or not.
PurgeTryLockAlways(w) ==
    /\ pw[w].pc = "trylock"
    /\ mu' = TRUE
    /\ pw' = [pw EXCEPT ![w].pc = "loop"]
    /\ UNCHANGED <<ecsVars, chVars>>

\* api.mu.TryLock(): the goroutine enters the loop, or returns at once when the
\* mutex is held.
PurgeTryLock(w) ==
    /\ pw[w].pc = "trylock"
    /\ IF ~mu
       THEN /\ mu' = TRUE
            /\ pw' = [pw EXCEPT ![w].pc = "loop"]
       ELSE /\ pw' = [pw EXCEPT ![w] = [NoPurge EXCEPT !.skipped = TRUE]]
            /\ UNCHANGED mu
    /\ UNCHANGED <<ecsVars, chVars>>

\* Variant: the error of GetAccessCount is not looked at.
PurgeGetAccessCountAnyErr(w) ==
    /\ pw[w].pc = "loop"
    /\ pw[w].i <= Len(pw[w].subdomains)
    /\ \E r \in AccessCounts :
          IF r.sum > 0
          THEN /\ pw' = [pw EXCEPT ![w].i = @ + 1, ![w].calls = @ + 1,
                                   ![w].sums = Append(@, r)]
               /\ UNCHANGED tb
          ELSE /\ tb.pc = "idle"
               /\ tb' = calling(w, pw[w].subdomains[pw[w].i])
               /\ pw' = [pw EXCEPT ![w].pc = "terminate", ![w].calls = @ + 2,
                                   ![w].sums = Append(@, r),
                                   ![w].termd = @ \cup {pw[w].i}]
    /\ UNCHANGED <<mu, tasks, api, gens, chVars>>

\* Variant: an error of GetAccessCount ends the loop.
PurgeGetAccessCountBreaks(w) ==
    /\ pw[w].pc = "loop"
    /\ pw[w].i <= Len(pw[w].subdomains)
    /\ \E r \in AccessCounts :
          IF r.err
          THEN /\ pw' = [pw EXCEPT ![w].i = Len(pw[w].subdomains) + 1, ![w].calls = @ + 1,
                                   ![w].sums = Append(@, r)]
               /\ UNCHANGED tb
          ELSE IF r.sum > 0
          THEN /\ pw' = [pw EXCEPT ![w].i = @ + 1, ![w].calls = @ + 1,
                                   ![w].sums = Append(@, r)]
               /\ UNCHANGED tb
          ELSE /\ tb.pc = "idle"
               /\ tb' = calling(w, pw[w].subdomains[pw[w].i])
               /\ pw' = [pw EXCEPT ![w].pc = "terminate", ![w].calls = @ + 2,
                                   ![w].sums = Append(@, r),
                                   ![w].termd = @ \cup {pw[w].i}]
    /\ UNCHANGED <<mu, tasks, api, gens, chVars>>

\* One turn of the loop over subdomains: GetAccessCount fails or reports
\* accesses (both: continue), or reports none, and then TerminateBySubdomain
\* is called.
PurgeGetAccessCount(w) ==
    /\ pw[w].pc = "loop"
    /\ pw[w].i <= Len(pw[w].subdomains)
    /\ \E r \in AccessCounts :
          IF r.err \/ r.sum > 0
          THEN /\ pw' = [pw EXCEPT ![w].i = @ + 1, ![w].calls = @ + 1,
                                   ![w].sums = Append(@, r)]
               /\ UNCHANGED tb
          ELSE /\ tb.pc = "idle"
               /\ tb' = calling(w, pw[w].subdomains[pw[w].i])
               /\ pw' = [pw EXCEPT ![w].pc = "terminate", ![w].calls = @ + 2,
                                   ![w].sums = Append(@, r),
                                   ![w].termd = @ \cup {pw[w].i}]
    /\ UNCHANGED <<mu, tasks, api, gens, chVars>>

\* TerminateBySubdomain has returned; after time.Sleep(3 * time.Second) the
\* loop goes on with the next subdomain.
PurgeTerminated(w) ==
    /\ pw[w].pc = "terminate"
    /\ tb.pc = "done"
    /\ tb.caller = w
    /\ tb' = NoCall
    /\ pw' = [pw EXCEPT ![w].pc = "loop", ![w].i = @ + 1]
    /\ UNCHANGED <<mu, tasks, api, gens, chVars>>

\* The loop is over: the deferred api.mu.Unlock().
PurgeUnlock(w) ==
    /\ pw[w].pc = "loop"
    /\ pw[w].i > Len(pw[w].subdomains)
    /\ mu' = FALSE
    /\ pw' = [pw EXCEPT ![w] = NoPurge]
    /\ UNCHANGED <<ecsVars, chVars>>

\* ---------------------------------------------------------- the AccessCounter
\* The bucket of time t: t.Truncate(unit).
Truncate(t) == t - (t % accessCounterUnit)

\* c.count[b], zero for a bucket the map does not hold.
Get(c, b) == IF b \in DOMAIN c THEN c[b] ELSE 0

Incr(c, b) == Put(c, b, Get(c, b) + 1)

RECURSIVE SumOver(_, _)
SumOver(c, S) ==
    IF S = {} THEN 0
    ELSE LET b == CHOOSE x \in S : TRUE IN c[b] + SumOver(c, S \ {b})

Total(c) == SumOver(c, DOMAIN c)

NoOp == [pc |-> "idle", b |-> 0, tmp |-> 0]

\* Variant: Add does not take the mutex.
AddNoLock(g) ==
    /\ cg[g].pc = "idle"
    /\ Total(since) + Cardinality({h \in Adders : cg[h].pc # "idle"}) < MaxAdds
    /\ cg' = [cg EXCEPT ![g].pc = "load"]
    /\ UNCHANGED <<clock, count, cmu, collected, since>>

\* Transport.RoundTrip calls t.Counter.Add(): the mutex is taken.
Add(g) ==
    /\ cg[g].pc = "idle"
    /\ Total(since) + Cardinality({h \in Adders : cg[h].pc # "idle"}) < MaxAdds
    /\ cmu = None
    /\ cmu' = g
    /\ cg' = [cg EXCEPT ![g].pc = "load"]
    /\ UNCHANGED <<clock, count, collected, since>>

\* Add reads the count of the bucket of time.Now() ...
AddLoad(g) ==
    /\ cg[g].pc = "load"
    /\ cg' = [cg EXCEPT ![g] = [pc |-> "store", b |-> Truncate(clock),
                                tmp |-> Get(count, Truncate(clock))]]
    /\ UNCHANGED <<clock, count, cmu, collected, since>>

\* ... stores the count plus one, and releases the mutex.
AddStore(g) ==
    /\ cg[g].pc = "store"
    /\ count' = Put(count, cg[g].b, cg[g].tmp + 1)
    /\ since' = Incr(since, cg[g].b)
    /\ cmu' = IF cmu = g THEN None ELSE cmu
    /\ cg' = [cg EXCEPT ![g] = NoOp]
    /\ UNCHANGED <<clock, collected>>

\* ReverseProxy.CollectAccessCounts reaches the counter of ab and calls its
\* Collect(): the mutex is taken.
CollectAccessCounts(g) ==
    /\ cg[g].pc = "idle"
    /\ cmu = None
    /\ cmu' = g
    /\ cg' = [cg EXCEPT ![g].pc = "copy"]
    /\ UNCHANGED <<clock, count, collected, since>>

\* Collect: a copy of the non-empty buckets is returned, the buckets are
\* cleared and the mutex is released.
Collect(g) ==
    /\ cg[g].pc = "copy"
    /\ collected' = [b \in {x \in DOMAIN count : count[x] > 0} |-> count[b]]
    /\ count' = EmptyMap
    /\ since' = EmptyMap
    /\ cmu' = None
    /\ cg' = [cg EXCEPT ![g] = NoOp]
    /\ UNCHANGED clock

\* Half a minute passes on the wall clock.
ClockTick ==
    /\ clock < MaxClock
    /\ clock' = clock + 1
    /\ UNCHANGED <<count, cmu, cg, collected, since>>

\* ------------------------------------------------------------- the Transport
\* strings.Contains(s, sub).
Contains(s, sub) ==
    \E k \in 0..(Len(s) - Len(sub)) : SubSeq(s, k + 1, k + Len(sub)) = sub

\* req.Cookie(name): the first cookie of the request with that name, or
\* http.ErrNoCookie.
RECURSIVE Cookie(_, _)
Cookie(cookies, name) ==
    IF cookies = <<>> THEN NoCookie
    ELSE IF Head(cookies).Name = name THEN Head(cookies)
    ELSE Cookie(Tail(cookies), name)

\* The validator of the test: a cookie is valid when its value is "ok".
AuthCookieValidateFunc(c) == c.Value = "ok"

newTimeoutResponse(subdomain, u, err) ==
    [StatusCode |-> 504, Body |-> subdomain \o UpstreamTimeoutText \o u \o <<" ">> \o err]

newForbiddenResponse == [StatusCode |-> 403, Body |-> ForbiddenText]

\* t.Transport.RoundTrip(req): the upstream answers 200 "OK", or the call fails.
Wrapped(c) ==
    IF c.up = NoErr THEN [resp |-> [StatusCode |-> 200, Body |-> OkText], err |-> NoErr]
    ELSE [resp |-> NoResponse, err |-> c.up]

\* Variant: every error of the wrapped transport is answered with 504.
ForwardAllTimeout(c) ==
    LET w == Wrapped(c)
    IN  IF w.err # NoErr
        THEN [state |-> "done", resp |-> newTimeoutResponse(c.Subdomain, UrlText, w.err),
              err |-> NoErr, invoked |-> 1]
        ELSE [state |-> "done", resp |-> w.resp, err |-> NoErr, invoked |-> 1]

\* RoundTrip from the call of the wrapped transport on.
Forward(c) ==
    LET w == Wrapped(c)
    IN  IF w.err # NoErr
        THEN IF Contains(w.err, TimeoutText)
             THEN [state |-> "done", resp |-> newTimeoutResponse(c.Subdomain, UrlText, w.err),
                   err |-> NoErr, invoked |-> 1]
             ELSE [state |-> "done", resp |-> NoResponse, err |-> w.err, invoked |-> 1]
        ELSE [state |-> "done", resp |-> w.resp, err |-> NoErr, invoked |-> 1]

Forbidden == [state |-> "done", resp |-> newForbiddenResponse, err |-> NoErr, invoked |-> 0]

\* Variant: OPTIONS requests are authenticated like the others.
RoundTripResultAllMethods(c) ==
    IF c.validator
    THEN LET cookie == Cookie(c.Cookies, AuthCookieName)
         IN  IF cookie = NoCookie THEN Forbidden
             ELSE IF ~AuthCookieValidateFunc(cookie) THEN Forbidden
             ELSE Forward(c)
    ELSE Forward(c)

\* What RoundTrip returns.
RoundTripResult(c) ==
    IF c.validator /\ c.Method # "OPTIONS"
    THEN LET cookie == Cookie(c.Cookies, AuthCookieName)
         IN  IF cookie = NoCookie THEN Forbidden
             ELSE IF ~AuthCookieValidateFunc(cookie) THEN Forbidden
             ELSE Forward(c)
    ELSE Forward(c)

\* The reverse proxy hands a request to the Transport.
Arrive(c) ==
    /\ resp # Pending
    /\ Total(count) < MaxAdds
    /\ rq' = c
    /\ resp' = Pending
    /\ UNCHANGED cntVars

\* Variant: the counter is incremented only when the request is forwarded.
RoundTripCountForwarded ==
    /\ resp = Pending
    /\ resp' = RoundTripResult(rq)
    /\ count' = IF resp'.invoked = 1 THEN Incr(count, Truncate(clock)) ELSE count
    /\ since' = IF resp'.invoked = 1 THEN Incr(since, Truncate(clock)) ELSE since
    /\ UNCHANGED <<rq, clock, cmu, cg, collected>>

\* Transport.RoundTrip: t.Counter.Add(), then the rest of the function.
RoundTrip ==
    /\ resp = Pending
    /\ count' = Incr(count, Truncate(clock))
    /\ since' = Incr(since, Truncate(clock))
    /\ resp' = RoundTripResult(rq)
    /\ UNCHANGED <<rq, clock, cmu, cg, collected>>

\* ------------------------------------------------------------ initial states
InitReg ==
    /\ localMode = FALSE
    /\ domains = <<>>
    /\ domainMap = [x \in {} |-> makeProxyHandlers]
    /\ accessCounters = {}
    /\ rd = [g \in Goroutines |-> Idle]
    /\ crashed = FALSE
    /\ lastRemoved = NoName

InitCh ==
    /\ ch = <<>>
    /\ lastSent = [s \in Names |-> "none"]

\* NewAccessCounter: no bucket is counted and no call is in progress.
InitCnt ==
    /\ clock = 0
    /\ count = EmptyMap
    /\ cmu = None
    /\ cg = [g \in Adders \cup Collectors |-> NoOp]
    /\ collected = EmptyMap
    /\ since = EmptyMap

\* No request has reached the Transport.
InitTr ==
    /\ rq = NoRq
    /\ resp = NoResult

\* ApiList has not been called.
InitList == listed = NotListed

\* No purge is being decided.
InitRule ==
    /\ req = NoRequest
    /\ info = NoInfo
    /\ now = 0
    /\ verdict = "pending"

\* No task runs and no call is in progress.
InitECS ==
    /\ tasks = <<>>
    /\ api = NoLaunch
    /\ tb = NoCall
    /\ gens = 0

InitPurge ==
    /\ mu = FALSE
    /\ pw = [w \in Workers |-> NoPurge]

\* ------------------------------------------------------------ a purge run
\* No purge was called: attrs holds what DescribeTasks reports of the tasks
\* that run from the start (their creation time, tags and last status).
NoPurgeRun ==
    [attrs |-> <<>>, state |-> "idle", ctx |-> "none", listing |-> {}, terminates |-> <<>>,
     loopCtx |-> "none", stoppedAtEnd |-> {}]

\* The request of the run: tasks tagged k=v are excluded, and so are tasks
\* younger than 300 seconds.
RunRequest == [Duration |-> 300, Excludes |-> <<>>, ExcludeTags |-> <<TagKV>>, ExcludeRegexp |-> <<>>]

\* What the tasks running at the start can be: old and untagged, young, or old
\* and tagged k=v.
OldTask == [Created |-> Now - 600, Tags |-> <<>>, LastStatus |-> "RUNNING"]
TaskAttrs ==
    { OldTask,
      [Created |-> Now - 299, Tags |-> <<>>, LastStatus |-> "RUNNING"],
      [Created |-> Now - 600, Tags |-> << [Key |-> <<"k">>, Value |-> <<"v">>] >>,
       LastStatus |-> "RUNNING"] }

\* The Information that List makes of task id; a task launched later was
\* created now and carries no tag of its own.
InformationOf(id) ==
    LET a == IF id \in DOMAIN pr.attrs THEN pr.attrs[id]
             ELSE [Created |-> now, Tags |-> <<>>, LastStatus |-> "RUNNING"]
    IN  [SubDomain |-> tasks[id].SubDomain, LastStatus |-> a.LastStatus, Tags |-> a.Tags,
         Created |-> a.Created]

\* lo.Uniq: the first occurrence of every element, in order.
RECURSIVE Uniq(_)
Uniq(seq) ==
    IF seq = <<>> THEN <<>>
    ELSE LET init == Uniq(SubSeq(seq, 1, Len(seq) - 1))
             x == seq[Len(seq)]
         IN  IF \E i \in DOMAIN init : init[i] = x THEN init ELSE Append(init, x)

\* The loop of purge over infos: the subdomains of the tasks to purge.
RECURSIVE Terminates(_, _)
Terminates(infos, p) ==
    IF infos = <<>> THEN <<>>
    ELSE IF ShouldBePurged(InformationOf(Head(infos)), p, now)
         THEN <<tasks[Head(infos)].SubDomain>> \o Terminates(Tail(infos), p)
    ELSE Terminates(Tail(infos), p)

\* Variant: the loop runs with the context of the request.
requestContext == "request"

\* context.Background(), the context purge gives to purgeSubdomains.
Background == "background"

\* The context c is done: that of the request when the request has ended or
\* was cancelled, the background context never.
Done(c) == c = "request" /\ pr.ctx = "done"

\* WebApi.purge, called by a request handler: List fails and purge returns the
\* error, or the listed tasks are filtered, purgeSubdomains is started as a
\* goroutine when there is a subdomain to purge, and purge returns nil.
PurgeCall(w) ==
    /\ pr.state = "idle"
    /\ pw[w].pc = "idle"
    /\ \E pages \in Pagings(RunningIds), failed \in BOOLEAN :
          IF failed
          THEN /\ pr' = [pr EXCEPT !.state = "failed", !.ctx = "live"]
               /\ UNCHANGED <<purgeVars, ecsVars, chVars>>
          ELSE \E o \in Orders(List(pages)) :
                  LET terminates == Uniq(Terminates(sortSlice(o), Validate(RunRequest)))
                  IN  /\ pr' = [pr EXCEPT !.state = "returned", !.ctx = "live",
                                          !.listing = List(pages),
                                          !.terminates = terminates,
                                          !.loopCtx = IF terminates # <<>> THEN Background
                                                      ELSE "none"]
                      /\ IF terminates # <<>> THEN PurgeStart(w, terminates)
                         ELSE UNCHANGED <<purgeVars, ecsVars, chVars>>
    /\ UNCHANGED lh

\* The request that called purge is answered or cancelled: its context is
\* done.  stoppedAtEnd (history): the tasks stopped by then.
RequestEnds ==
    /\ pr.ctx = "live"
    /\ pr' = [pr EXCEPT !.ctx = "done",
                        !.stoppedAtEnd = {i \in DOMAIN tasks : tasks[i].DesiredStatus = "STOPPED"}]
    /\ UNCHANGED <<purgeVars, ecsVars, chVars, lh>>

\* The backend calls of the loop are made with its context: a call fails when
\* that context is done.
RunGetAccessCount(w) ==
    /\ PurgeGetAccessCount(w)
    /\ Done(pr.loopCtx) => pw'[w].sums[Len(pw'[w].sums)].err
    /\ UNCHANGED runVars

RunFind ==
    /\ TBFind
    /\ (tb.caller \in Workers /\ Done(pr.loopCtx)) => tb'.err
    /\ UNCHANGED <<purgeVars, runVars>>

RunTerminate(id) ==
    /\ TBTerminate(id)
    /\ (tb.caller \in Workers /\ Done(pr.loopCtx)) => tasks' = tasks
    /\ UNCHANGED <<purgeVars, runVars>>

\* ------------------------------------------------------- the launch handler
NoLaunchCall == [state |-> "idle", req |-> <<>>, status |-> 0, called |-> FALSE]

\* ------------------------------------------------------------ the log reader
\* A container definition with an awslogs configuration, as logs sees it: its
\* awslogs-group, and what GetLogEvents answers for its stream (for the since
\* of the call): an error, or n events.  A container that logs skips (no log
\* configuration, another driver, an option missing) is left out.
Containers ==
    {[group |-> "g1", err |-> FALSE, n |-> n] : n \in 1..MaxEvents}
        \cup {[group |-> "g2", err |-> FALSE, n |-> 1], [group |-> "g1", err |-> TRUE, n |-> 0]}

\* A task find returned: DescribeTaskDefinition fails for it, or reports up to
\* two containers.
LogTasks ==
    {[failed |-> TRUE, containers |-> <<>>]}
        \cup {[failed |-> FALSE, containers |-> cs] :
                cs \in {<<>>} \cup {<<c>> : c \in Containers}
                        \cup {<<c, d>> : c, d \in Containers}}

\* The messages of the events of container i of task t; message k of it is
\* written <<t, i, k>>.  A failing GetLogEvents is skipped with a warning.
Events(t, cs, i) == IF cs[i].err THEN <<>> ELSE [k \in 1..cs[i].n |-> <<t, i, k>>]

\* streams[g]: the events of the streams of group g, in the order of the
\* container definitions, from container i on.
RECURSIVE GroupLines(_, _, _, _)
GroupLines(t, cs, g, i) ==
    IF i > Len(cs) THEN <<>>
    ELSE (IF cs[i].group = g THEN Events(t, cs, i) ELSE <<>>) \o GroupLines(t, cs, g, i + 1)

\* The orders in which the range over the streams map may visit the groups.
GroupOrders(cs) == Orders({cs[i].group : i \in DOMAIN cs})

RECURSIVE Gathered(_, _, _)
Gathered(t, cs, order) ==
    IF order = <<>> THEN <<>>
    ELSE GroupLines(t, cs, Head(order), 1) \o Gathered(t, cs, Tail(order))

\* The end of logs: the last tail lines when tail > 0 and that many lines were
\* gathered, all lines otherwise.
TailOf(lines, tail) ==
    IF tail > 0 /\ Len(lines) >= tail
    THEN SubSeq(lines, Len(lines) - tail + 1, Len(lines))
    ELSE lines

\* logs(ctx, info, since, tail) for task t, the groups being visited in order.
logs(t, task, order, tail) ==
    IF task.failed THEN [lines |-> <<>>, err |-> TRUE]
    ELSE [lines |-> TailOf(Gathered(t, task.containers, order), tail), err |-> FALSE]

RECURSIVE Flatten(_)
Flatten(ss) == IF ss = <<>> THEN <<>> ELSE Head(ss) \o Flatten(Tail(ss))

\* The calls of Logs: the tasks find returns for the subdomain, and tail.
LogCalls ==
    {[infos |-> is, tail |-> n, state |-> "none", lines |-> <<>>, err |-> FALSE] :
        is \in UNION {[1..k -> LogTasks] : k \in 0..MaxLogTasks}, n \in 0..MaxTail}

NoLogs == [infos |-> <<>>, tail |-> 0, state |-> "idle", lines |-> <<>>, err |-> FALSE]

\* ECS.Logs: an error when find fails or finds no task; otherwise one goroutine
\* per task calls logs and appends what it got under the mutex, in the order
\* done in which the goroutines get there, and Logs returns the lines together
\* with the first error of the group, if any.
Logs ==
    /\ lc.state = "none"
    /\ \E findFailed \in BOOLEAN :
        IF findFailed \/ Len(lc.infos) = 0
        THEN lc' = [lc EXCEPT !.state = "error", !.err = TRUE]
        ELSE \E done \in Orders(DOMAIN lc.infos) :
             \E go \in [DOMAIN lc.infos -> UNION {GroupOrders(i.containers) : i \in LogTasks}] :
                /\ \A t \in DOMAIN lc.infos : go[t] \in GroupOrders(lc.infos[t].containers)
                /\ LET l == [t \in DOMAIN lc.infos |-> logs(t, lc.infos[t], go[t], lc.tail)]
                   IN  lc' = [lc EXCEPT !.state = "returned",
                                        !.lines = Flatten([k \in DOMAIN done |-> l[done[k]].lines]),
                                        !.err = \E t \in DOMAIN l : l[t].err]
    /\ UNCHANGED <<vs, tp, pg>>

\* ------------------------------------------------------ subdomain validation
\* The characters the texts are made of, by the classes of
\* DNSNameRegexpWithPattern (the texts are lowercase: launch lowers them).
Letters == {"a", "b", "c", "d"}
Digits == {"1"}
GlobMeta == {"*", "?", "[", "]"}
SubChars == {"a", "1", "-", "*", "[", "]", "/"}

\* A text of n letters a.
Long(n) == [i \in 1..n |-> "a"]

ShortTexts ==
    UNION {[1..n -> SubChars] : n \in 0..MaxSubLen}

SubdomainTexts ==
    ShortTexts \cup
    { <<"a", "b", "c">>, <<"a", "-", "b", "-", "c">>, <<"a", "*", "c">>,
      <<"[", "a", "b", "]", "c">>, <<"a", "?">>, <<"-", "a", "b">>, <<"a", "b", "-">>,
      <<"a", "b", "/", "c", "d">>, <<"[", "a", "-", "c", "]", "1">>,
      Long(63), Long(64), <<"1">> \o Long(62), Long(62) \o <<"-">>, Long(62) \o <<"1">> }

\* DNSNameRegexpWithPattern.MatchString:
\* ^[a-zA-Z*?\[\]][a-zA-Z0-9-*?\[\]]{0,61}[a-zA-Z0-9*?\[\]]$
MatchDNSName(s) ==
    /\ Len(s) >= 2
    /\ Len(s) - 2 <= 61
    /\ s[1] \in Letters \cup GlobMeta
    /\ \A i \in 2..(Len(s) - 1) : s[i] \in Letters \cup Digits \cup {"-"} \cup GlobMeta
    /\ s[Len(s)] \in Letters \cup Digits \cup GlobMeta

\* path.scanChunk: the stars at the front are dropped (star), the chunk runs
\* to the next star outside a [ ] range.
RECURSIVE DropStars(_)
DropStars(p) == IF p # <<>> /\ Head(p) = "*" THEN DropStars(Tail(p)) ELSE p

\* The index at which the scan of p stops: that of the first star that is not
\* inside a range opened by [ and not yet closed by ], or Len(p) + 1.
InRange(p, i) ==
    \E k \in 1..(i - 1) :
        /\ p[k] = "["
        /\ \A j \in (k + 1)..(i - 1) : p[j] # "]"

ScanEnd(p) ==
    LET stops == {i \in DOMAIN p : p[i] = "*" /\ ~InRange(p, i)}
    IN  IF stops = {} THEN Len(p) + 1
        ELSE CHOOSE i \in stops : \A j \in stops : i <= j

scanChunk(pattern) ==
    LET p == DropStars(pattern)
        i == ScanEnd(p)
    IN  [star |-> p # pattern, chunk |-> SubSeq(p, 1, i - 1), rest |-> SubSeq(p, i, Len(p))]

\* path.getEsc fails on an empty chunk, on - and ], and when nothing follows
\* the character it read.
getEscErr(chunk) == chunk = <<>> \/ Head(chunk) \in {"-", "]"} \/ Tail(chunk) = <<>>

\* path.matchChunk returns ErrBadPattern: it reads the whole chunk, matched or
\* not; a [ opens a class of one or more ranges lo or lo-hi closed by ].
RECURSIVE matchChunkErr(_)
RECURSIVE classErr(_, _)
matchChunkErr(chunk) ==
    LET opens == {i \in DOMAIN chunk : chunk[i] = "["}
    IN  IF opens = {} THEN FALSE
        ELSE LET i == CHOOSE k \in opens : \A j \in opens : k <= j
             IN  classErr(SubSeq(chunk, i + 1, Len(chunk)), 0)

classErr(chunk, nrange) ==
    IF chunk # <<>> /\ Head(chunk) = "]" /\ nrange > 0 THEN matchChunkErr(Tail(chunk))
    ELSE IF getEscErr(chunk) THEN TRUE
    ELSE IF Head(Tail(chunk)) = "-"
         THEN IF getEscErr(Tail(Tail(chunk))) THEN TRUE
              ELSE classErr(Tail(Tail(Tail(chunk))), 1)
    ELSE classErr(Tail(chunk), 1)

\* path.Match(pattern, "x") returns an error: every chunk is read, by the
\* match or by the check of the remainder, up to a trailing star.
RECURSIVE MatchErr(_)
MatchErr(pattern) ==
    IF pattern = <<>> THEN FALSE
    ELSE LET sc == scanChunk(pattern)
         IN  IF sc.star /\ sc.chunk = <<>> THEN FALSE
             ELSE matchChunkErr(sc.chunk) \/ MatchErr(sc.rest)

\* Variant: the text is not tried as a glob.
validateSubdomainNoGlob(s) ==
    IF s = <<>> THEN "empty"
    ELSE IF Len(s) < 2 THEN "short"
    ELSE IF Len(s) > 63 THEN "long"
    ELSE IF ~MatchDNSName(s) THEN "invalid"
    ELSE "ok"

\* validateSubdomain: "ok" for a nil error, the error otherwise.
validateSubdomain(s) ==
    IF s = <<>> THEN "empty"
    ELSE IF Len(s) < 2 THEN "short"
    ELSE IF Len(s) > 63 THEN "long"
    ELSE IF ~MatchDNSName(s) THEN "invalid"
    ELSE IF MatchErr(s) THEN "badpattern"
    ELSE "ok"

NotValidated == [s |-> <<>>, state |-> "idle"]

\* launch validates the subdomain of the request.
ValidateSubdomain ==
    /\ vs.state = "none"
    /\ vs' = [vs EXCEPT !.state = validateSubdomain(vs.s)]
    /\ UNCHANGED <<lc, tp, pg>>

\* -------------------------------------------------------- purge requests
\* strconv.ParseInt(s, 10, 64) on short texts: an optional sign, then one or
\* more decimal digits.
DigitChars == <<"0", "1", "2", "3", "4", "5", "6", "7", "8", "9">>

DigitValue(c) == (CHOOSE k \in DOMAIN DigitChars : DigitChars[k] = c) - 1

IsDigit(c) == \E k \in DOMAIN DigitChars : DigitChars[k] = c

RECURSIVE Horner(_, _)
Horner(ds, acc) ==
    IF ds = <<>> THEN acc ELSE Horner(Tail(ds), acc * 10 + DigitValue(Head(ds)))

ParseInt(s) ==
    LET signed == s # <<>> /\ Head(s) \in {"+", "-"}
        ds == IF signed THEN Tail(s) ELSE s
    IN  IF ds = <<>> \/ \E i \in DOMAIN ds : ~IsDigit(ds[i]) THEN [ok |-> FALSE, v |-> 0]
        ELSE [ok |-> TRUE, v |-> IF signed /\ Head(s) = "-" THEN 0 - Horner(ds, 0)
                                 ELSE Horner(ds, 0)]

\* The json.Number texts of the field duration.
DurationTexts ==
    { <<"3", "0", "0">>, <<"2", "9", "9">>, <<"6", "0", "0">>, <<"+", "3", "0", "0">>,
      <<"-", "3", "0", "0">>, <<>>, <<"3", "e", "2">>, <<"3", "0", "0", ".", "5">> }

\* The requests bound from the body of POST /api/purge or from the purge
\* section of the configuration.
PurgeRequests ==
    [Duration : DurationTexts,
     Excludes : {<<Ab>>},
     ExcludeTags : {<<TagKV>>, <<TagKV, TagBad>>},
     ExcludeRegexp : {<<>>, <<"b">>, <<"(">>}]

\* Variant: the number is taken without the test against the minimum.
ValidateRequestAnyDuration(r) ==
    LET di == ParseInt(r.Duration)
    IN  IF ~di.ok THEN [ok |-> FALSE]
        ELSE Validate([r EXCEPT !.Duration = IF di.v < PurgeMinimumDuration
                                             THEN PurgeMinimumDuration ELSE di.v])

\* APIPurgeRequest.Validate from the text of duration on: r.Duration.Int64()
\* fails, or Validate goes on with the number.
ValidateRequest(r) ==
    LET di == ParseInt(r.Duration)
    IN  IF ~di.ok THEN [ok |-> FALSE] ELSE Validate([r EXCEPT !.Duration = di.v])

NoPurgeRequest == [Duration |-> <<>>, Excludes |-> <<>>, ExcludeTags |-> <<>>, ExcludeRegexp |-> <<>>]

\* The purge section of the configuration: none, or a schedule and a request
\* (nil when the section has none).
CronTexts == {"*/3 * * * ? *", "often"}

\* cronplan.Parse: the expression of TestPurgeConfig parses, "often" does not.
CronParses(s) == s = "*/3 * * * ? *"

NoPurgeConfig == [Schedule |-> "", Request |-> NoPurgeRequest, nil |-> TRUE]

PurgeConfigs ==
    {NoPurgeConfig}
        \cup [Schedule : CronTexts, Request : PurgeRequests, nil : {FALSE}]
        \cup [Schedule : CronTexts, Request : {NoPurgeRequest}, nil : {TRUE}]

NoParams == [ok |-> FALSE]

\* A purge run: how it was started, its params, and (history) the request the
\* params were made from.
NoRun == [via |-> "none", params |-> NoParams, from |-> NoPurgeRequest]

NotLoaded(c) ==
    [conf |-> c, state |-> "new", PurgeParams |-> NoParams,
     r |-> NoPurgeRequest, code |-> 0, run |-> NoRun]

\* Purge.Validate: the schedule parses, a request is there and validates.
PurgeValidate(p) ==
    IF ~CronParses(p.Schedule) THEN [ok |-> FALSE]
    ELSE IF p.nil THEN [ok |-> FALSE]
    ELSE ValidateRequest(p.Request)

\* The end of the configuration loader: a purge section is validated, and the
\* loading fails when it is invalid.
LoadConfig ==
    /\ pg.state = "new"
    /\ IF pg.conf = NoPurgeConfig THEN pg' = [pg EXCEPT !.state = "loaded"]
       ELSE LET p == PurgeValidate(pg.conf)
            IN  IF p.ok THEN pg' = [pg EXCEPT !.state = "loaded", !.PurgeParams = p]
                ELSE pg' = [pg EXCEPT !.state = "failed"]
    /\ UNCHANGED <<lc, vs, tp>>

\* WebApi.purge with params p: List fails (an error), or
\* the tasks are filtered and purgeSubdomains is started for those to purge.
purge(p, via, from, listFailed) ==
    [pg EXCEPT !.run = [via |-> via, params |-> p, from |-> from],
               !.code = IF listFailed THEN 500 ELSE 200]

\* WebApi.ApiPurge: 400 for a body that does not bind or a request that does
\* not validate; otherwise purge runs with the params of Validate.
ApiPurge(r) ==
    /\ pg.state = "loaded"
    /\ \E bindFailed, listFailed \in BOOLEAN :
        IF bindFailed THEN pg' = [pg EXCEPT !.r = NoPurgeRequest, !.code = 400]
        ELSE LET p == ValidateRequest(r)
             IN  IF ~p.ok THEN pg' = [pg EXCEPT !.r = r, !.code = 400]
                 ELSE pg' = [purge(p, "api", r, listFailed) EXCEPT !.r = r]
    /\ UNCHANGED <<lc, vs, tp>>

\* The schedule fires: purge runs with the params validated at load time.
ScheduledPurge ==
    /\ pg.state = "loaded"
    /\ pg.conf # NoPurgeConfig
    /\ \E listFailed \in BOOLEAN :
        pg' = [purge(pg.PurgeParams, "schedule", pg.conf.Request, listFailed) EXCEPT !.code = pg.code]
    /\ UNCHANGED <<lc, vs, tp>>

\* ------------------------------------------------ task parameters to ECS
\* The bytes of the characters subdomains are made of.
LowerCase ==
    << "a", "b", "c", "d", "e", "f", "g", "h", "i", "j", "k", "l", "m",
       "n", "o", "p", "q", "r", "s", "t", "u", "v", "w", "x", "y", "z" >>

Byte(c) ==
    IF c = "*" THEN 42 ELSE IF c = "-" THEN 45
    ELSE 96 + (CHOOSE k \in DOMAIN LowerCase : LowerCase[k] = c)

\* The alphabet of base64.URLEncoding.
encodeURL ==
    << "A", "B", "C", "D", "E", "F", "G", "H", "I", "J", "K", "L", "M",
       "N", "O", "P", "Q", "R", "S", "T", "U", "V", "W", "X", "Y", "Z",
       "a", "b", "c", "d", "e", "f", "g", "h", "i", "j", "k", "l", "m",
       "n", "o", "p", "q", "r", "s", "t", "u", "v", "w", "x", "y", "z",
       "0", "1", "2", "3", "4", "5", "6", "7", "8", "9", "-", "_" >>

Sextet(v, k) == encodeURL[((v \div (64 ^ (3 - k))) % 64) + 1]

\* base64.URLEncoding.EncodeToString: three bytes make four characters, a
\* rest of one or two bytes is padded with '='.
RECURSIVE EncodeToString(_)
EncodeToString(s) ==
    IF s = <<>> THEN <<>>
    ELSE IF Len(s) = 1
         THEN LET v == Byte(s[1]) * 65536
              IN  <<Sextet(v, 0), Sextet(v, 1), "=", "=">>
    ELSE IF Len(s) = 2
         THEN LET v == Byte(s[1]) * 65536 + Byte(s[2]) * 256
              IN  <<Sextet(v, 0), Sextet(v, 1), Sextet(v, 2), "=">>
    ELSE LET v == Byte(s[1]) * 65536 + Byte(s[2]) * 256 + Byte(s[3])
         IN  <<Sextet(v, 0), Sextet(v, 1), Sextet(v, 2), Sextet(v, 3)>>
                 \o EncodeToString(SubSeq(s, 4, Len(s)))

\* Config.EncodeSubdomain: base64url in v1 compatibility mode, plain otherwise.
EncodeSubdomain(compatV1, subdomain) ==
    IF compatV1 THEN EncodeToString(subdomain) ELSE subdomain

encodeTagValue(s) == EncodeToString(s)

\* strings.ToUpper on the names of environment variables.
ToUpper(s) == IF s = "env2" THEN "ENV2" ELSE s

\* p[name] of a TaskParameter (a Go map): the empty text for a missing key.
Lookup(p, name) == IF name \in DOMAIN p THEN p[name] ELSE <<>>

\* Variant: a parameter without value is converted as well.
ParamPairsAll(p, configParams, i, kvp) ==
    kvp \o [k \in DOMAIN configParams |->
               [Name |-> configParams[k].Env, Value |-> Lookup(p, configParams[k].Name)]]

\* The loop of ToECSKeyValuePairs over the declared parameters, from the i-th
\* on: one pair per parameter with a value.
RECURSIVE ParamPairs(_, _, _, _)
ParamPairs(p, configParams, i, kvp) ==
    IF i > Len(configParams) THEN kvp
    ELSE IF Lookup(p, configParams[i].Name) = <<>> THEN ParamPairs(p, configParams, i + 1, kvp)
    ELSE ParamPairs(p, configParams, i + 1,
            Append(kvp, [Name |-> configParams[i].Env,
                         Value |-> Lookup(p, configParams[i].Name)]))

\* enc is the encoder of the configuration, a function of the subdomain.
ToECSKeyValuePairs(p, subdomain, configParams, enc) ==
    ParamPairs(p, configParams, 1,
        << [Name |-> "SUBDOMAIN", Value |-> enc[subdomain]],
           [Name |-> "SUBDOMAINRAW", Value |-> subdomain] >>)

\* The loop of ToECSTags, from the i-th declared parameter on.
RECURSIVE ParamTags(_, _, _, _)
ParamTags(p, configParams, i, tags) ==
    IF i > Len(configParams) THEN tags
    ELSE IF Lookup(p, configParams[i].Name) = <<>> THEN ParamTags(p, configParams, i + 1, tags)
    ELSE ParamTags(p, configParams, i + 1,
            Append(tags, [Key |-> configParams[i].Name,
                          Value |-> Lookup(p, configParams[i].Name)]))

ToECSTags(p, subdomain, configParams) ==
    ParamTags(p, configParams, 1,
        << [Key |-> "Subdomain", Value |-> encodeTagValue(subdomain)],
           [Key |-> "ManagedBy", Value |-> <<"M", "i", "r", "a", "g", "e">>] >>)

\* The loop of ToEnv, from the i-th declared parameter on: the map is keyed by
\* the upper-cased name of the variable.
RECURSIVE ParamEnv(_, _, _, _)
ParamEnv(p, configParams, i, env) ==
    IF i > Len(configParams) THEN env
    ELSE IF Lookup(p, configParams[i].Name) = <<>> THEN ParamEnv(p, configParams, i + 1, env)
    ELSE ParamEnv(p, configParams, i + 1,
            Put(env, ToUpper(configParams[i].Env), Lookup(p, configParams[i].Name)))

ToEnv(p, subdomain, configParams, enc) ==
    ParamEnv(p, configParams, 1,
        Put(Put(EmptyMap, "SUBDOMAIN", enc[subdomain]), "SUBDOMAINRAW", subdomain))

\* The declared parameters and the values of TestToECSKeyValuePairsAndTags
\* (the second variable in lower case), in every order and number.
Param1 == [Name |-> "Param1", Env |-> "ENV1"]
Param2 == [Name |-> "Param2", Env |-> "env2"]
Param3 == [Name |-> "Param3", Env |-> "ENV3"]
Value1 == <<"V", "1">>
Value2 == <<"V", "2">>
TestSubdomain == <<"t", "e", "s", "t", "s", "u", "b", "d", "o", "m", "a", "i", "n">>

ConfigParams ==
    {cps \in UNION {[1..n -> {Param1, Param2, Param3}] : n \in 0..3} :
        \A i, j \in DOMAIN cps : i # j => cps[i] # cps[j]}

TaskParameters ==
    UNION {[names -> {<<>>, Value1, Value2}] : names \in SUBSET {"Param1", "Param2", "Param3"}}

NotConverted ==
    [subdomain |-> <<>>, compatV1 |-> FALSE, configParams |-> <<>>, p |-> EmptyMap,
     state |-> "idle", kvp |-> <<>>, tags |-> <<>>, env |-> EmptyMap]

Conversions ==
    {[NotConverted EXCEPT !.subdomain = s, !.compatV1 = c, !.configParams = cps, !.p = p,
                          !.state = "none"] :
        s \in {Ab, AStar, TestSubdomain}, c \in BOOLEAN, cps \in ConfigParams,
        p \in TaskParameters}

\* The three conversions of a launch, as the test calls them.
Convert ==
    /\ tp.state = "none"
    /\ tp' = [tp EXCEPT
                !.state = "done",
                !.kvp = ToECSKeyValuePairs(tp.p, tp.subdomain, tp.configParams,
                                           [s \in {tp.subdomain} |-> EncodeSubdomain(tp.compatV1, s)]),
                !.tags = ToECSTags(tp.p, tp.subdomain, tp.configParams),
                !.env = ToEnv(tp.p, tp.subdomain, tp.configParams,
                              [s \in {tp.subdomain} |-> EncodeSubdomain(tp.compatV1, s)])]
    /\ UNCHANGED <<lc, vs, pg>>

\* No Logs call, no validateSubdomain call and no conversion has been made.
InitLc == lc = NoLogs

InitVs == vs = NotValidated

InitTp == tp = NotConverted

\* No query and no request has been made.
InitAsk ==
    /\ qr = NoQuery
    /\ sv = [g \in Goroutines |-> NoServe]

InitPg == pg = NotLoaded(NoPurgeConfig)

InitRun ==
    /\ pr = NoPurgeRun
    /\ lh = NoLaunchCall

InitFn == InitLc /\ InitVs /\ InitTp /\ InitPg

\* ------------------------------------------- the registry under HTTP requests
Init == InitReg /\ InitCh /\ InitRule /\ InitECS /\ InitPurge /\ InitCnt /\ InitTr /\ InitList /\ InitAsk /\ InitRun /\ InitFn

Next ==
    \/ \E s \in Names, in \in AddInputs : AddSubdomain(s, in[1], in[2]) /\ UNCHANGED <<chVars, ruleVars, ecsVars, purgeVars, cntVars, trVars, listVars, fnVars, askVars, runVars>>
    \/ \E s \in Names : RemoveSubdomain(s) /\ UNCHANGED <<chVars, ruleVars, ecsVars, purgeVars, cntVars, trVars, listVars, fnVars, askVars, runVars>>
    \/ \E g \in Goroutines, s \in LookupNames, p \in ListenPorts :
          FindHandler(g, s, p) /\ UNCHANGED <<chVars, ruleVars, ecsVars, purgeVars, cntVars, trVars, listVars, fnVars, askVars, runVars>>
    \/ \E g \in Goroutines : HandlerNext(g) /\ UNCHANGED <<chVars, ruleVars, ecsVars, purgeVars, cntVars, trVars, listVars, fnVars, askVars, runVars>>
    \/ \E g \in Goroutines : HandlerDelete(g) /\ UNCHANGED <<chVars, ruleVars, ecsVars, purgeVars, cntVars, trVars, listVars, fnVars, askVars, runVars>>
    \/ \E g \in Goroutines : FindReturn(g) /\ UNCHANGED <<chVars, ruleVars, ecsVars, purgeVars, cntVars, trVars, listVars, fnVars, askVars, runVars>>
    \/ Tick /\ UNCHANGED <<chVars, ruleVars, ecsVars, purgeVars, cntVars, trVars, listVars, fnVars, askVars, runVars>>

Spec == Init /\ [][Next]_vars

\* ------------------------------------- the registry fed by the control channel
NextChan ==
    \/ \E m \in Msgs : SendProxyControl(m) /\ UNCHANGED <<regVars, ruleVars, ecsVars, purgeVars, cntVars, trVars, listVars, fnVars, askVars, runVars>>
    \/ ReceiveProxyControl /\ UNCHANGED <<ruleVars, ecsVars, purgeVars, cntVars, trVars, listVars, fnVars, askVars, runVars>>

SpecChan == Init /\ [][NextChan]_vars

\* ------------------------------------------- the purge rule on one listed task
InitDecide ==
    /\ InitReg /\ InitCh /\ InitECS /\ InitPurge /\ InitCnt /\ InitTr /\ InitList /\ InitAsk /\ InitRun /\ InitFn
    /\ req \in Requests
    /\ info \in Informations
    /\ now = Now
    /\ verdict = "pending"

NextDecide == Decide /\ UNCHANGED <<regVars, chVars, ecsVars, purgeVars, cntVars, trVars, listVars, fnVars, askVars, runVars>>

SpecDecide == InitDecide /\ [][NextDecide]_vars

\* --------------------------------------------- the task runner under API calls
\* The sync loop receives the messages of TerminateBySubdomain.
Receive == ReceiveProxyControl /\ UNCHANGED <<ruleVars, ecsVars, purgeVars, cntVars, trVars, listVars, fnVars, askVars, runVars>>

NextECS ==
    \/ \E s \in LaunchNames, tds \in TaskDefLists :
          Launch(s, tds) /\ UNCHANGED <<regVars, ruleVars, purgeVars, cntVars, trVars, listVars, fnVars, askVars, runVars>>
    \/ LaunchTerminated /\ UNCHANGED <<regVars, ruleVars, purgeVars, cntVars, trVars, listVars, fnVars, askVars, runVars>>
    \/ \E n \in 1..2 : launchTask(n) /\ UNCHANGED <<regVars, ruleVars, purgeVars, cntVars, trVars, listVars, fnVars, askVars, runVars>>
    \/ LaunchWait /\ UNCHANGED <<regVars, ruleVars, purgeVars, cntVars, trVars, listVars, fnVars, askVars, runVars>>
    \/ \E s \in LaunchNames : ApiTerminate(s) /\ UNCHANGED <<regVars, ruleVars, purgeVars, cntVars, trVars, listVars, fnVars, askVars, runVars>>
    \/ ApiTerminated /\ UNCHANGED <<regVars, ruleVars, purgeVars, cntVars, trVars, listVars, fnVars, askVars, runVars>>
    \/ TBFind /\ UNCHANGED <<regVars, ruleVars, purgeVars, cntVars, trVars, listVars, fnVars, askVars, runVars>>
    \/ TBSend /\ UNCHANGED <<regVars, ruleVars, purgeVars, cntVars, trVars, listVars, fnVars, askVars, runVars>>
    \/ \E id \in 1..MaxTasks : TBTerminate(id) /\ UNCHANGED <<regVars, ruleVars, purgeVars, cntVars, trVars, listVars, fnVars, askVars, runVars>>
    \/ TBWait /\ UNCHANGED <<regVars, ruleVars, purgeVars, cntVars, trVars, listVars, fnVars, askVars, runVars>>
    \/ Receive

SpecECS == Init /\ [][NextECS]_vars

\* ------------------------------------------------- concurrent purge goroutines
\* Two environments run when the purges start.
InitPurging ==
    /\ InitReg /\ InitCh /\ InitRule /\ InitPurge /\ InitCnt /\ InitTr /\ InitList /\ InitAsk /\ InitRun /\ InitFn
    /\ tasks = << [SubDomain |-> Ab, TaskDef |-> "td1", DesiredStatus |-> "RUNNING",
                   ManagedBy |-> TagValueMirage],
                  [SubDomain |-> AStar, TaskDef |-> "td1", DesiredStatus |-> "RUNNING",
                   ManagedBy |-> TagValueMirage] >>
    /\ api = NoLaunch
    /\ tb = NoCall
    /\ gens = 0

NextPurge ==
    \/ \E w \in Workers, l \in PurgeLists : PurgeStart(w, l) /\ UNCHANGED <<regVars, ruleVars, cntVars, trVars, listVars, fnVars, askVars, runVars>>
    \/ \E w \in Workers : PurgeTryLock(w) /\ UNCHANGED <<regVars, ruleVars, cntVars, trVars, listVars, fnVars, askVars, runVars>>
    \/ \E w \in Workers : PurgeGetAccessCount(w) /\ UNCHANGED <<regVars, ruleVars, cntVars, trVars, listVars, fnVars, askVars, runVars>>
    \/ \E w \in Workers : PurgeTerminated(w) /\ UNCHANGED <<regVars, ruleVars, cntVars, trVars, listVars, fnVars, askVars, runVars>>
    \/ \E w \in Workers : PurgeUnlock(w) /\ UNCHANGED <<regVars, ruleVars, cntVars, trVars, listVars, fnVars, askVars, runVars>>
    \/ TBFind /\ UNCHANGED <<regVars, ruleVars, purgeVars, cntVars, trVars, listVars, fnVars, askVars, runVars>>
    \/ TBSend /\ UNCHANGED <<regVars, ruleVars, purgeVars, cntVars, trVars, listVars, fnVars, askVars, runVars>>
    \/ \E id \in 1..MaxTasks : TBTerminate(id) /\ UNCHANGED <<regVars, ruleVars, purgeVars, cntVars, trVars, listVars, fnVars, askVars, runVars>>
    \/ TBWait /\ UNCHANGED <<regVars, ruleVars, purgeVars, cntVars, trVars, listVars, fnVars, askVars, runVars>>
    \/ Receive

SpecPurge == InitPurging /\ [][NextPurge]_vars

\* ------------------------------------ purge goroutines that are scheduled
\* The steps of the purge goroutine w, of the TerminateBySubdomain call it
\* waits for, and of the sync loop.  The Go scheduler runs every goroutine that
\* can run, and each backend call returns.
PurgeWorker(w) ==
    /\ PurgeTryLock(w) \/ PurgeGetAccessCount(w) \/ PurgeTerminated(w) \/ PurgeUnlock(w)
    /\ UNCHANGED <<regVars, ruleVars, cntVars, trVars, listVars, fnVars, askVars, runVars>>

TerminateCall ==
    /\ TBFind \/ TBSend \/ (\E id \in 1..MaxTasks : TBTerminate(id)) \/ TBWait
    /\ UNCHANGED <<regVars, ruleVars, purgeVars, cntVars, trVars, listVars, fnVars, askVars, runVars>>

SpecPurgeFair ==
    /\ InitPurging
    /\ [][NextPurge]_vars
    /\ \A w \in Workers : WF_vars(PurgeWorker(w))
    /\ WF_vars(TerminateCall)
    /\ WF_vars(Receive)

\* --------------------------------------------- the counter under concurrent use
NextCounter ==
    \/ \E g \in Adders : Add(g) /\ UNCHANGED <<regVars, chVars, ruleVars, ecsVars, purgeVars, trVars, listVars, fnVars, askVars, runVars>>
    \/ \E g \in Adders : AddLoad(g) /\ UNCHANGED <<regVars, chVars, ruleVars, ecsVars, purgeVars, trVars, listVars, fnVars, askVars, runVars>>
    \/ \E g \in Adders : AddStore(g) /\ UNCHANGED <<regVars, chVars, ruleVars, ecsVars, purgeVars, trVars, listVars, fnVars, askVars, runVars>>
    \/ \E g \in Collectors :
          CollectAccessCounts(g) /\ UNCHANGED <<regVars, chVars, ruleVars, ecsVars, purgeVars, trVars, listVars, fnVars, askVars, runVars>>
    \/ \E g \in Collectors : Collect(g) /\ UNCHANGED <<regVars, chVars, ruleVars, ecsVars, purgeVars, trVars, listVars, fnVars, askVars, runVars>>
    \/ ClockTick /\ UNCHANGED <<regVars, chVars, ruleVars, ecsVars, purgeVars, trVars, listVars, fnVars, askVars, runVars>>

SpecCounter == Init /\ [][NextCounter]_vars

\* ------------------------------------------------ the Transport under requests
NextTransport ==
    \/ \E c \in Calls : Arrive(c) /\ UNCHANGED <<regVars, chVars, ruleVars, ecsVars, purgeVars, listVars, fnVars, askVars, runVars>>
    \/ RoundTrip /\ UNCHANGED <<regVars, chVars, ruleVars, ecsVars, purgeVars, listVars, fnVars, askVars, runVars>>
    \/ ClockTick /\ UNCHANGED <<regVars, chVars, ruleVars, ecsVars, purgeVars, trVars, listVars, fnVars, askVars, runVars>>

SpecTransport == Init /\ [][NextTransport]_vars

\* ------------------------------------------------------ List on some cluster
InitListing ==
    /\ InitReg /\ InitCh /\ InitRule /\ InitPurge /\ InitCnt /\ InitTr /\ InitList /\ InitAsk /\ InitRun /\ InitFn
    /\ tasks \in Clusters
    /\ api = NoLaunch
    /\ tb = NoCall
    /\ gens = 0

NextList ==
    ApiList /\ UNCHANGED <<regVars, chVars, ruleVars, ecsVars, purgeVars, cntVars, trVars, fnVars, askVars, runVars>>

SpecList == InitListing /\ [][NextList]_vars

\* ----------------------------------------------------- Logs on some subdomain
InitLogs ==
    /\ InitReg /\ InitCh /\ InitRule /\ InitECS /\ InitPurge /\ InitCnt /\ InitTr /\ InitList /\ InitAsk /\ InitRun
    /\ InitVs /\ InitTp /\ InitPg
    /\ lc \in LogCalls

NextLogs ==
    Logs /\ UNCHANGED <<regVars, chVars, ruleVars, ecsVars, purgeVars, cntVars, trVars, listVars, askVars, runVars>>

SpecLogs == InitLogs /\ [][NextLogs]_vars

\* ------------------------------------------- validateSubdomain on some text
InitSubdomain ==
    /\ InitReg /\ InitCh /\ InitRule /\ InitECS /\ InitPurge /\ InitCnt /\ InitTr /\ InitList /\ InitAsk /\ InitRun
    /\ InitLc /\ InitTp /\ InitPg
    /\ vs \in {[s |-> s, state |-> "none"] : s \in SubdomainTexts}

NextSubdomain ==
    ValidateSubdomain
        /\ UNCHANGED <<regVars, chVars, ruleVars, ecsVars, purgeVars, cntVars, trVars, listVars, askVars, runVars>>

SpecSubdomain == InitSubdomain /\ [][NextSubdomain]_vars

\* ------------------------------------------------ purge requests and schedule
InitPurgeRequests ==
    /\ InitReg /\ InitCh /\ InitRule /\ InitECS /\ InitPurge /\ InitCnt /\ InitTr /\ InitList /\ InitAsk /\ InitRun
    /\ InitLc /\ InitVs /\ InitTp
    /\ pg \in {NotLoaded(c) : c \in PurgeConfigs}

NextPurgeRequests ==
    \/ LoadConfig /\ UNCHANGED <<regVars, chVars, ruleVars, ecsVars, purgeVars, cntVars, trVars, listVars, askVars, runVars>>
    \/ \E r \in PurgeRequests :
          ApiPurge(r) /\ UNCHANGED <<regVars, chVars, ruleVars, ecsVars, purgeVars, cntVars, trVars, listVars, askVars, runVars>>
    \/ ScheduledPurge /\ UNCHANGED <<regVars, chVars, ruleVars, ecsVars, purgeVars, cntVars, trVars, listVars, askVars, runVars>>

SpecPurgeRequests == InitPurgeRequests /\ [][NextPurgeRequests]_vars

\* --------------------------------------------- conversions of task parameters
InitConvert ==
    /\ InitReg /\ InitCh /\ InitRule /\ InitECS /\ InitPurge /\ InitCnt /\ InitTr /\ InitList /\ InitAsk /\ InitRun
    /\ InitLc /\ InitVs /\ InitPg
    /\ tp \in Conversions

NextConvert ==
    Convert /\ UNCHANGED <<regVars, chVars, ruleVars, ecsVars, purgeVars, cntVars, trVars, listVars, askVars, runVars>>

SpecConvert == InitConvert /\ [][NextConvert]_vars

\* ------------------------------------------- the registry under queries
NextRegistry ==
    \/ \E s \in Names, in \in AddInputs :
          AddSubdomain(s, in[1], in[2]) /\ UNCHANGED <<chVars, ruleVars, ecsVars, purgeVars, cntVars, trVars, listVars, fnVars, askVars, runVars>>
    \/ \E s \in Names :
          RemoveSubdomain(s) /\ UNCHANGED <<chVars, ruleVars, ecsVars, purgeVars, cntVars, trVars, listVars, fnVars, askVars, runVars>>
    \/ Tick /\ UNCHANGED <<chVars, ruleVars, ecsVars, purgeVars, cntVars, trVars, listVars, fnVars, askVars, runVars>>
    \/ Subdomains /\ UNCHANGED <<chVars, ruleVars, ecsVars, purgeVars, cntVars, trVars, listVars, fnVars, runVars>>
    \/ \E s \in AskNames :
          Exists(s) /\ UNCHANGED <<chVars, ruleVars, ecsVars, purgeVars, cntVars, trVars, listVars, fnVars, runVars>>

SpecRegistry == Init /\ [][NextRegistry]_vars

\* ------------------------------------------- the registry under requests
NextServe ==
    \/ \E s \in LookupNames, in \in AddInputs :
          AddSubdomain(s, in[1], in[2]) /\ UNCHANGED <<chVars, ruleVars, ecsVars, purgeVars, cntVars, trVars, listVars, fnVars, askVars, runVars>>
    \/ \E s \in LookupNames :
          RemoveSubdomain(s) /\ UNCHANGED <<chVars, ruleVars, ecsVars, purgeVars, cntVars, trVars, listVars, fnVars, askVars, runVars>>
    \/ Tick /\ UNCHANGED <<chVars, ruleVars, ecsVars, purgeVars, cntVars, trVars, listVars, fnVars, askVars, runVars>>
    \/ \E g \in Goroutines, host \in Hosts, p \in ListenPorts :
          ServeHTTPWithPort(g, host, p) /\ UNCHANGED <<chVars, ruleVars, ecsVars, purgeVars, cntVars, trVars, listVars, fnVars, runVars>>
    \/ \E g \in Goroutines :
          HandlerNext(g) /\ UNCHANGED <<chVars, ruleVars, ecsVars, purgeVars, cntVars, trVars, listVars, fnVars, askVars, runVars>>
    \/ \E g \in Goroutines :
          HandlerDelete(g) /\ UNCHANGED <<chVars, ruleVars, ecsVars, purgeVars, cntVars, trVars, listVars, fnVars, askVars, runVars>>
    \/ \E g \in Goroutines :
          ServeReturn(g) /\ UNCHANGED <<chVars, ruleVars, ecsVars, purgeVars, cntVars, trVars, listVars, fnVars, runVars>>

SpecServe == Init /\ [][NextServe]_vars

\* --------------------------------- AddSubdomain in cluster mode and in local mode
InitAdd ==
    /\ InitCh /\ InitRule /\ InitECS /\ InitPurge /\ InitCnt /\ InitTr /\ InitList /\ InitFn /\ InitAsk /\ InitRun
    /\ localMode \in BOOLEAN
    /\ domains = <<>>
    /\ domainMap = [x \in {} |-> makeProxyHandlers]
    /\ accessCounters = {}
    /\ rd = [g \in Goroutines |-> Idle]
    /\ crashed = FALSE
    /\ lastRemoved = NoName

NextAdd ==
    \/ \E s \in LookupNames, in \in RegInputs :
          AddSubdomain(s, in[1], in[2]) /\ UNCHANGED <<chVars, ruleVars, ecsVars, purgeVars, cntVars, trVars, listVars, fnVars, askVars, runVars>>
    \/ \E s \in LookupNames :
          RemoveSubdomain(s) /\ UNCHANGED <<chVars, ruleVars, ecsVars, purgeVars, cntVars, trVars, listVars, fnVars, askVars, runVars>>
    \/ Tick /\ UNCHANGED <<chVars, ruleVars, ecsVars, purgeVars, cntVars, trVars, listVars, fnVars, askVars, runVars>>

SpecAdd == InitAdd /\ [][NextAdd]_vars

\* ------------------------------------------------------ the launch handler
\* Parameter values are texts of bytes; C3 A9 is the UTF-8 encoding of one
\* code point.
ContinuationBytes == {"A9"}
Accents(n) == [i \in 1..(2 * n) |-> IF i % 2 = 1 THEN "C3" ELSE "A9"]

\* utf8.RuneCountInString on valid UTF-8: the bytes that start a code point.
RuneCountInString(s) == Cardinality({i \in DOMAIN s : s[i] \notin ContinuationBytes})

\* The longest parameter value LoadParameter accepts, in code points.
MaxParameterRunes == 255

\* cfg.Parameter: branch is required and has neither default nor rule; nick is
\* optional, defaults to b and must match the rule b.
CfgParameter ==
    << [Name |-> "branch", Default |-> <<>>, Required |-> TRUE, Rule |-> <<>>],
       [Name |-> "nick", Default |-> <<"b">>, Required |-> FALSE, Rule |-> <<"b">>] >>

BranchValues == {<<>>, <<"a">>, Long(255), Long(256), Accents(128)}
NickValues == {<<>>, <<"a">>, <<"b">>, Long(255) \o <<"b">>}

\* A well-formed launch request.
GoodRequest ==
    [Subdomain |-> <<"A", "B">>, Branch |-> <<"a">>, Parameters |-> EmptyMap,
     Taskdef |-> <<"td1">>, bindErr |-> FALSE]

\* The launch requests: the subdomain as sent, the branch, the other
\* parameters (nick may be missing), the taskdefs, and whether Bind fails;
\* those that differ from the well-formed one in at most one field.
LaunchRequests ==
    {r \in [Subdomain : {<<>>, <<"a">>, <<"A", "B">>, <<"a", "b">>, <<"a", "/">>},
            Branch : BranchValues,
            Parameters : {EmptyMap} \cup {[k \in {"nick"} |-> v] : v \in NickValues},
            Taskdef : {<<>>, <<"td1">>},
            bindErr : BOOLEAN] :
        Cardinality({k \in DOMAIN r : r[k] # GoodRequest[k]}) <= 1}

\* APILaunchRequest.GetParameter.
GetParameter(r, key) ==
    IF key = "branch" THEN r.Branch
    ELSE IF key \in DOMAIN r.Parameters THEN r.Parameters[key]
    ELSE <<>>

\* Variant: a required parameter may be empty.
RECURSIVE LoadLoopNoRequired(_, _, _)
LoadLoopNoRequired(r, i, parameter) ==
    IF i > Len(CfgParameter) THEN [ok |-> TRUE, parameter |-> parameter]
    ELSE LET v == CfgParameter[i]
             got == GetParameter(r, v.Name)
             param == IF got = <<>> /\ v.Default # <<>> THEN v.Default ELSE got
         IN  IF param = <<>> THEN LoadLoopNoRequired(r, i + 1, parameter)
             ELSE IF v.Rule # <<>> /\ ~MatchString(v.Rule, param) THEN [ok |-> FALSE]
             ELSE IF RuneCountInString(param) > MaxParameterRunes THEN [ok |-> FALSE]
             ELSE LoadLoopNoRequired(r, i + 1, Put(parameter, v.Name, param))

\* The loop of LoadParameter over cfg.Parameter, from entry i on.
RECURSIVE LoadLoop(_, _, _)
LoadLoop(r, i, parameter) ==
    IF i > Len(CfgParameter) THEN [ok |-> TRUE, parameter |-> parameter]
    ELSE LET v == CfgParameter[i]
             got == GetParameter(r, v.Name)
             param == IF got = <<>> /\ v.Default # <<>> THEN v.Default ELSE got
         IN  IF param = <<>> /\ v.Required THEN [ok |-> FALSE]
             ELSE IF param = <<>> THEN LoadLoop(r, i + 1, parameter)
             ELSE IF v.Rule # <<>> /\ ~MatchString(v.Rule, param) THEN [ok |-> FALSE]
             ELSE IF RuneCountInString(param) > MaxParameterRunes THEN [ok |-> FALSE]
             ELSE LoadLoop(r, i + 1, Put(parameter, v.Name, param))

\* WebApi.LoadParameter: the TaskParameter, or an error.
LoadParameter(r) == LoadLoop(r, 1, EmptyMap)

Answered(r, status, called) ==
    [state |-> "answered", req |-> r, status |-> status, called |-> called]

\* WebApi.launch up to its call of runner.Launch: the request is answered 400,
\* or Launch is called with the lowercased subdomain.  A Launch that fails in
\* its lookup has returned already, and launch answers 500.
LaunchHandler(r) ==
    /\ lh.state \in {"idle", "answered"}
    /\ LET subdomain == ToLower(r.Subdomain)
       IN  IF r.bindErr
           THEN lh' = Answered(r, 400, FALSE) /\ UNCHANGED <<ecsVars, chVars>>
           ELSE IF validateSubdomain(subdomain) # "ok"
           THEN lh' = Answered(r, 400, FALSE) /\ UNCHANGED <<ecsVars, chVars>>
           ELSE IF ~LoadParameter(r).ok
           THEN lh' = Answered(r, 400, FALSE) /\ UNCHANGED <<ecsVars, chVars>>
           ELSE IF subdomain = <<>> \/ Len(r.Taskdef) = 0
           THEN lh' = Answered(r, 400, FALSE) /\ UNCHANGED <<ecsVars, chVars>>
           ELSE /\ Launch(subdomain, r.Taskdef)
                /\ lh' = IF api'.pc = "idle" THEN Answered(r, 500, TRUE)
                         ELSE [Answered(r, 0, TRUE) EXCEPT !.state = "launching"]
    /\ UNCHANGED pr

\* Launch returns the error of TerminateBySubdomain: launch answers 500.
HandlerLaunchTerminated ==
    /\ LaunchTerminated
    /\ lh' = IF tb.err THEN [lh EXCEPT !.state = "answered", !.status = 500] ELSE lh
    /\ UNCHANGED pr

\* Launch returns what eg.Wait() returned: launch answers 500 or 200.
HandlerLaunchWait ==
    /\ LaunchWait
    /\ lh' = [lh EXCEPT !.state = "answered", !.status = IF api.err THEN 500 ELSE 200]
    /\ UNCHANGED pr

\* One task of ab runs at the start, or none.
InitLaunchHandler ==
    /\ InitReg /\ InitCh /\ InitPurge /\ InitCnt /\ InitTr /\ InitList /\ InitAsk /\ InitFn
    /\ InitRule /\ InitRun
    /\ \E n \in 0..1 :
          tasks = [i \in 1..n |-> [SubDomain |-> Ab, TaskDef |-> "td1",
                                   DesiredStatus |-> "RUNNING", ManagedBy |-> TagValueMirage]]
    /\ api = NoLaunch
    /\ tb = NoCall
    /\ gens = 0

HandlerFrame == UNCHANGED <<regVars, ruleVars, purgeVars, cntVars, trVars, listVars, fnVars, askVars>>

NextLaunchHandler ==
    \/ \E r \in LaunchRequests : LaunchHandler(r) /\ HandlerFrame
    \/ HandlerLaunchTerminated /\ HandlerFrame
    \/ launchTask(1) /\ HandlerFrame /\ UNCHANGED runVars
    \/ HandlerLaunchWait /\ HandlerFrame
    \/ TBFind /\ HandlerFrame /\ UNCHANGED runVars
    \/ TBSend /\ HandlerFrame /\ UNCHANGED runVars
    \/ \E id \in 1..MaxTasks : TBTerminate(id) /\ HandlerFrame /\ UNCHANGED runVars
    \/ TBWait /\ HandlerFrame /\ UNCHANGED runVars
    \/ Receive

SpecLaunchHandler == InitLaunchHandler /\ [][NextLaunchHandler]_vars

\* ------------------------------------------- a purge run beside a launch
\* Two tasks run at the start: one of ab, of any age and tagging, and an old
\* untagged one of ab or a*.  One purge request and one launch request for ab
\* arrive, in any order.
InitPurgeRun ==
    /\ InitReg /\ InitCh /\ InitPurge /\ InitCnt /\ InitTr /\ InitList /\ InitAsk /\ InitFn
    /\ req = NoRequest
    /\ info = NoInfo
    /\ now = Now
    /\ verdict = "pending"
    /\ \E s \in Names :
          tasks = << [SubDomain |-> Ab, TaskDef |-> "td1", DesiredStatus |-> "RUNNING",
                      ManagedBy |-> TagValueMirage],
                     [SubDomain |-> s, TaskDef |-> "td1", DesiredStatus |-> "RUNNING",
                      ManagedBy |-> TagValueMirage] >>
    /\ api = NoLaunch
    /\ tb = NoCall
    /\ gens = 0
    /\ \E a \in TaskAttrs : pr = [NoPurgeRun EXCEPT !.attrs = <<a, OldTask>>]
    /\ lh = NoLaunchCall

RunFrame == UNCHANGED <<regVars, ruleVars, cntVars, trVars, listVars, fnVars, askVars>>

NextPurgeRun ==
    \/ PurgeCall("w1") /\ RunFrame
    \/ RequestEnds /\ RunFrame
    \/ PurgeTryLock("w1") /\ RunFrame /\ UNCHANGED runVars
    \/ RunGetAccessCount("w1") /\ RunFrame
    \/ PurgeTerminated("w1") /\ RunFrame /\ UNCHANGED runVars
    \/ PurgeUnlock("w1") /\ RunFrame /\ UNCHANGED runVars
    \/ RunFind /\ RunFrame
    \/ TBSend /\ RunFrame /\ UNCHANGED <<purgeVars, runVars>>
    \/ \E id \in 1..MaxTasks : RunTerminate(id) /\ RunFrame
    \/ TBWait /\ RunFrame /\ UNCHANGED <<purgeVars, runVars>>
    \/ Receive
    \/ api = NoLaunch /\ Launch(Ab, <<"td1">>) /\ RunFrame /\ UNCHANGED <<purgeVars, runVars>>
    \/ LaunchTerminated /\ RunFrame /\ UNCHANGED <<purgeVars, runVars>>
    \/ launchTask(1) /\ RunFrame /\ UNCHANGED <<purgeVars, runVars>>
    \/ LaunchWait /\ RunFrame /\ UNCHANGED <<purgeVars, runVars>>

SpecPurgeRun == InitPurgeRun /\ [][NextPurgeRun]_vars

\* C33: purge returns in the step that lists and filters, with nothing
\* terminated and the loop at most started; the loop runs with a context that
\* the end of the request never makes done; and with no subdomain to purge no
\* goroutine is started and the mutex is never taken.
C33_ReturnsBeforeLoop ==
    /\ [][(pr.state = "idle" /\ pr'.state = "returned") =>
            /\ tasks' = tasks /\ tb' = tb /\ mu' = mu /\ ch' = ch
            /\ IF pr'.terminates = <<>>
               THEN pw' = pw /\ pr'.loopCtx = "none"
               ELSE /\ pw'["w1"].pc = "trylock"
                    /\ pw'["w1"].subdomains = pr'.terminates
                    /\ pw'["w1"].termd = {}]_vars
    /\ [](pw["w1"].pc # "idle" => pr.loopCtx # "none" /\ ~Done(pr.loopCtx))
    /\ []((pr.terminates = <<>>) => (~mu /\ pw["w1"] = NoPurge))

\* The request has ended, and afterwards the loop has stopped a task.
C33_StoppedAfterRequest ==
    /\ pr.ctx = "done"
    /\ tb.caller = "w1"
    /\ \E i \in tb.infos \ tb.todo :
          tasks[i].DesiredStatus = "STOPPED" /\ i \notin pr.stoppedAtEnd

\* The value of the i-th configured parameter in request r, after the default.
ValueOf(r, i) ==
    IF GetParameter(r, CfgParameter[i].Name) = <<>> THEN CfgParameter[i].Default
    ELSE GetParameter(r, CfgParameter[i].Name)

\* Some configured parameter of r is required and empty, does not match its
\* rule, or is longer than 255 code points.
ParameterFails(r) ==
    \E i \in DOMAIN CfgParameter :
        \/ ValueOf(r, i) = <<>> /\ CfgParameter[i].Required
        \/ /\ ValueOf(r, i) # <<>>
           /\ \/ CfgParameter[i].Rule # <<>> /\ ~MatchString(CfgParameter[i].Rule, ValueOf(r, i))
              \/ RuneCountInString(ValueOf(r, i)) > 255

\* C34: a launch request whose lowercased subdomain is not valid, whose
\* parameters fail or whose taskdef list is empty is answered 400 in the step
\* it arrives, Launch is not called and the tasks and calls stay as they were.
C34_RejectedBeforeLaunch ==
    [][(lh.state \in {"idle", "answered"} /\ lh' # lh) =>
          LET r == lh'.req
          IN  (\/ validateSubdomain(ToLower(r.Subdomain)) # "ok"
               \/ ParameterFails(r)
               \/ r.Taskdef = <<>>) =>
                  /\ lh'.state = "answered" /\ lh'.status = 400 /\ ~lh'.called
                  /\ UNCHANGED <<tasks, api, tb, gens, ch>>]_vars

\* A request with a branch longer than 255 code points has been answered 400
\* while a task launched by an earlier request runs.
C34_TooLongRejected ==
    /\ lh.state = "answered" /\ lh.status = 400
    /\ RuneCountInString(lh.req.Branch) > 255
    /\ api.sub = Ab
    /\ \E i \in RunningIds : i > 1

\* C35, as the specification states it: Launch goes on to launch new tasks
\* only when its TerminateBySubdomain call has sent proxyRemove and has issued
\* Terminate for every task the find of Launch returned.
C35_AsStated ==
    [][(api.pc = "terminate" /\ api'.pc = "launch") =>
          (tb.sent /\ api.found \subseteq (tb.infos \ tb.todo))]_vars

\* ------------------------------------- lookups among several matching names
\* The names registered: ab and two globs that both match it.
QB == <<"?", "b">>
ResolveNames == {Ab, AStar, QB}

\* The labels looked up: ab, and xy, which no name matches.
ResolveLookups == {Ab, Xy}

NextResolve ==
    \/ \E s \in ResolveNames : AddSubdomain(s, "ip1", 80) /\ UNCHANGED <<chVars, ruleVars, ecsVars, purgeVars, cntVars, trVars, listVars, fnVars, askVars, runVars>>
    \/ \E s \in ResolveNames : RemoveSubdomain(s) /\ UNCHANGED <<chVars, ruleVars, ecsVars, purgeVars, cntVars, trVars, listVars, fnVars, askVars, runVars>>
    \/ \E s \in ResolveLookups, p \in ListenPorts :
          FindHandler("g1", s, p) /\ UNCHANGED <<chVars, ruleVars, ecsVars, purgeVars, cntVars, trVars, listVars, fnVars, askVars, runVars>>
    \/ HandlerNext("g1") /\ UNCHANGED <<chVars, ruleVars, ecsVars, purgeVars, cntVars, trVars, listVars, fnVars, askVars, runVars>>
    \/ HandlerDelete("g1") /\ UNCHANGED <<chVars, ruleVars, ecsVars, purgeVars, cntVars, trVars, listVars, fnVars, askVars, runVars>>
    \/ FindReturn("g1") /\ UNCHANGED <<chVars, ruleVars, ecsVars, purgeVars, cntVars, trVars, listVars, fnVars, askVars, runVars>>
    \/ Tick /\ UNCHANGED <<chVars, ruleVars, ecsVars, purgeVars, cntVars, trVars, listVars, fnVars, askVars, runVars>>

SpecResolve == Init /\ [][NextResolve]_vars

\* ============================================================ registry claims
\* The step in which goroutine g's FindHandler call fixes its result.
Returns(g) == rd[g].pc # "ret" /\ rd'[g].pc = "ret"

\* The handlers under name n on listen port p whose timer has not fired.
LiveOn(n, p) ==
    IF n \in DOMAIN domainMap
    THEN {a \in DOMAIN domainMap[n][p] : domainMap[n][p][a].age < Lifetime}
    ELSE {}

\* C1, as the specification states it: FindHandler(s, p) returns a handler if
\* and only if a live handler on port p is registered under s itself or under
\* some registered name whose glob matches s.
C1_AsStated ==
    [][\A g \in Goroutines : Returns(g) =>
          ((rd'[g].rv # None) <=>
              \E n \in DOMAIN domainMap :
                  /\ n = rd'[g].sub \/ Match(n, rd'[g].sub)
                  /\ LiveOn(n, rd'[g].port) # {})]_vars

\* C2, as the specification states it: a FindHandler call that returns a live
\* handler resets that handler's deadline to now + proxyHandlerLifetime
\* (leaves its timer with age 0).
C2_AsStated ==
    [][\A g \in Goroutines :
          (Returns(g) /\ rd'[g].rv # None /\ rd'[g].rv \in LiveOn(rd'[g].name, rd'[g].port))
              => domainMap'[rd'[g].name][rd'[g].port][rd'[g].rv].age = 0]_vars

\* C3, as the specification states it: when the only handler of (s, p) is older
\* than proxyHandlerLifetime and was not extended, a FindHandler(s, p) call made
\* then does not return it: the call returns none.
C3_AsStated ==
    [][\A g \in Goroutines :
          LET s == rd'[g].sub
              p == rd'[g].port
          IN  (/\ rd[g].pc = "idle" /\ rd'[g].pc # "idle"
               /\ s \in DOMAIN domainMap
               /\ Cardinality(DOMAIN domainMap[s][p]) = 1
               /\ \A a \in DOMAIN domainMap[s][p] : domainMap[s][p][a].age > Lifetime)
              => rd'[g].rv = None]_vars

\* C4, as the specification states it: after AddSubdomain(s, ...) followed by
\* RemoveSubdomain(s), FindHandler(s, p) returns none on every listen port.
C4_AsStated ==
    [][\A g \in Goroutines :
          (Returns(g) /\ rd'[g].sub = lastRemoved) => rd'[g].rv = None]_vars

\* C4, amended: after AddSubdomain(s, ...) followed by RemoveSubdomain(s),
\* FindHandler(s, p) returns none unless another registered name is a glob that
\* matches s; a handler it returns is registered under such a name on port p,
\* never under s.
C4_GlobFallback ==
    [][\A g \in Goroutines :
          (Returns(g) /\ rd'[g].sub = lastRemoved) =>
              LET s == rd'[g].sub
                  p == rd'[g].port
                  globs == {n \in DOMAIN domainMap : n # s /\ Match(n, s)}
              IN  /\ globs = {} => rd'[g].rv = None
                  /\ rd'[g].rv # None =>
                        \E n \in globs : rd'[g].rv \in DOMAIN domainMap[n][p]]_vars

\* C4, the case: a lookup of the name just removed came back with a handler of
\* a matching glob name.
C4_FellBack ==
    \E g \in Goroutines :
        rd[g].pc = "ret" /\ rd[g].sub = lastRemoved /\ rd[g].rv # None

\* ============================================================ channel claims
\* C9: when the producer has sent Add and then Remove for a name and the
\* consumer has received every message for that name, the registry holds no
\* entry for it: the messages were applied in the order they were sent.
C9_AddThenRemove ==
    \A s \in Names :
        (lastSent[s] = "AddRemove" /\ \A i \in DOMAIN ch : ch[i].Subdomain # s)
            => (s \notin DOMAIN domainMap /\ ~InDomains(s) /\ s \notin accessCounters)

\* C9, the case: Add and Remove for ab were sent in that order, both were
\* received, and the registry's latest write removed ab after adding it.
C9_Applied ==
    lastSent[Ab] = "AddRemove" /\ ch = <<>> /\ lastRemoved = Ab

\* ========================================================== purge rule claims
\* The exclusion rules, read off the task and the validated parameters.
NotRunning == info.LastStatus # "RUNNING"
InExcludes == \E i \in DOMAIN req.Excludes : req.Excludes[i] = info.SubDomain
TagExcluded ==
    \E n \in DOMAIN info.Tags, k \in DOMAIN Validate(req).excludeTagsMap :
        info.Tags[n].Key = k /\ info.Tags[n].Value = Validate(req).excludeTagsMap[k]
RegexpExcluded ==
    req.ExcludeRegexp # <<>> /\ MatchString(req.ExcludeRegexp, info.SubDomain)
Decided == verdict \in {"purge", "keep"}

\* C7: ShouldBePurged is false whenever one exclusion rule matches (the task is
\* not RUNNING, its subdomain is in excludes, one of its tags equals an entry
\* of the exclude tags map, or excludeRegexp matches its subdomain), whatever
\* the other rules say and whatever the task's age.
C7_ExclusionWins ==
    (Decided /\ (NotRunning \/ InExcludes \/ TagExcluded \/ RegexpExcluded))
        => verdict = "keep"

\* C7, the case: an old enough running task is kept because of its tag alone.
C7_KeptByTag ==
    /\ verdict = "keep" /\ TagExcluded
    /\ ~NotRunning /\ ~InExcludes /\ ~RegexpExcluded
    /\ info.Created < now - req.Duration

\* C8, as the specification states it: ShouldBePurged is true exactly when the
\* task is RUNNING, no exclusion matches and the task was created earlier than
\* now - duration.
C8_AsStated ==
    Decided =>
        ((verdict = "purge") <=>
            (/\ ~NotRunning /\ ~InExcludes /\ ~TagExcluded /\ ~RegexpExcluded
             /\ info.Created < now - req.Duration))

\* C8, amended: ShouldBePurged is true exactly when the task is RUNNING, no
\* exclusion matches and the task was created at or before now - duration; a
\* task created later than now - duration is never selected.
C8_NotAfterBegin ==
    Decided =>
        ((verdict = "purge") <=>
            (/\ ~NotRunning /\ ~InExcludes /\ ~TagExcluded /\ ~RegexpExcluded
             /\ info.Created <= now - req.Duration))

\* C8, the case: a task created exactly at now - duration is selected.
C8_AtBegin ==
    verdict = "purge" /\ info.Created = now - req.Duration

\* ========================================================= task runner claims
\* The running tasks of subdomain s made from taskdef td.
RunningOf(s, td) == {i \in RunningIds : tasks[i].SubDomain = s /\ tasks[i].TaskDef = td}

\* C6, as the specification states it: after two successful Launch calls in a
\* row with the same arguments, the subdomain has exactly one running task per
\* taskdef.
C6_AsStated ==
    (api.pc = "idle" /\ gens >= 2) =>
        \A n \in DOMAIN api.taskdefs :
            Cardinality(RunningOf(api.sub, api.taskdefs[n])) = 1

Active == {w \in Workers : pw[w].pc \in {"loop", "terminate"}}

\* C5: at most one purgeSubdomains goroutine is past the try-lock, and one
\* that found the mutex held has returned without a call of GetAccessCount or
\* TerminateBySubdomain.
C5_SingleFlight ==
    /\ Cardinality(Active) <= 1
    /\ \A w \in Workers : pw[w].skipped => (pw[w].pc = "idle" /\ pw[w].calls = 0)

\* C5, the case: one goroutine runs the loop and has made calls while another
\* found the mutex held and returned.
C5_OneSkipped ==
    \E w1, w2 \in Workers :
        /\ pw[w1].pc \in {"loop", "terminate"} /\ pw[w1].calls > 0
        /\ pw[w2].skipped

\* ================================================= registry frame conditions
\* No mapping of cfg.Listen.HTTP has the target port.
NoMapping(targetPort) == \A i \in DOMAIN HTTP : HTTP[i].TargetPort # targetPort

\* C11, as the specification states it: an AddSubdomain(s, ip, targetPort) call
\* in cluster mode with no listen mapping whose target is targetPort leaves the
\* handler map, the domain list and the set of access counters as they were.
C11_AsStated ==
    [][\A s \in Names, in \in AddInputs :
          (~localMode /\ NoMapping(in[2]) /\ AddSubdomain(s, in[1], in[2]))
              => UNCHANGED <<domainMap, domains, accessCounters>>]_vars

\* The names of a domain list other than s, in their order.
Others(seq, s) == SelectSeq(seq, LAMBDA n : n # s)

\* C12, as the specification states it: RemoveSubdomain(s) removes s from the
\* handler map, the domain list and the access counters and leaves every other
\* name's handlers, relative order and counter as they were; when s is not
\* registered, nothing changes.
C12_AsStated ==
    [][\A s \in Names : RemoveSubdomain(s) =>
          /\ s \notin DOMAIN domainMap'
          /\ \A i \in DOMAIN domains' : domains'[i] # s
          /\ s \notin accessCounters'
          /\ DOMAIN domainMap' = DOMAIN domainMap \ {s}
          /\ \A n \in DOMAIN domainMap' : domainMap'[n] = domainMap[n]
          /\ domains' = Others(domains, s)
          /\ accessCounters' \ {s} = accessCounters \ {s}
          /\ (s \notin DOMAIN domainMap =>
                UNCHANGED <<domainMap, domains, accessCounters>>)]_vars

\* ============================================== registry concurrency claims
\* C13: whatever the interleaving of FindHandler calls, AddSubdomain calls and
\* the passing of time, a handler whose timer has not fired stays in the
\* registry over every step but a RemoveSubdomain of its name: the cleanup of
\* dead handlers (in proxyHandlers.Handler and proxyHandlers.exists) never
\* takes it away.
C13_NoLiveHandlerLost ==
    [][\A n \in DOMAIN domainMap, p \in ListenPorts :
          \A a \in LiveOn(n, p) :
              \/ n \in DOMAIN domainMap' /\ a \in DOMAIN domainMap'[n][p]
              \/ RemoveSubdomain(n)]_vars

\* C13, the case: a lookup has deleted a dead handler from an inner map that
\* also holds a live handler, and goes on with its range loop.
C13_CleanedBesideLive ==
    \E g \in Goroutines :
        rd[g].pc = "range" /\ LiveOn(rd[g].name, rd[g].port) # {}

\* The keys of the registry's handler maps.
Keys == [n \in DOMAIN domainMap |-> [p \in ListenPorts |-> DOMAIN domainMap[n][p]]]

\* C14, as the specification states it: while a goroutine holds only the read
\* lock, no step changes the handler maps, the domain list or the counter map,
\* and the runtime never sees two goroutines write, or iterate and write, the
\* same map at once.
C14_AsStated ==
    [][/\ (\E g \in Goroutines : rd[g].pc # "idle") =>
              (Keys' = Keys /\ UNCHANGED <<domains, accessCounters>>)
       /\ ~crashed']_vars

\* ============================================================ transport claims
\* The step in which RoundTrip returns.
RoundTripReturns == resp = Pending /\ resp' # Pending

\* The request carries an auth cookie that the validator accepts.
Accepted(c) ==
    \E i \in DOMAIN c.Cookies :
        c.Cookies[i].Name = AuthCookieName /\ AuthCookieValidateFunc(c.Cookies[i])

HasPrefix(s, prefix) == Len(s) >= Len(prefix) /\ SubSeq(s, 1, Len(prefix)) = prefix

\* C15: on a Transport with a validator, a request other than OPTIONS that has
\* no auth cookie or whose auth cookie the validator rejects is answered with
\* 403 and the body "Forbidden", and the wrapped transport is not invoked; every
\* other request (valid cookie, OPTIONS, Transport without validator) is
\* forwarded to the wrapped transport.
C15_AuthGate ==
    [][RoundTripReturns =>
          IF rq.validator /\ rq.Method # "OPTIONS" /\ ~Accepted(rq)
          THEN /\ resp'.resp = [StatusCode |-> 403, Body |-> ForbiddenText]
               /\ resp'.err = NoErr
               /\ resp'.invoked = 0
          ELSE resp'.invoked = 1]_vars

\* C15, the case: a GET with a cookie the validator rejects was answered 403.
C15_Refused ==
    /\ resp.state = "done" /\ resp.resp.StatusCode = 403 /\ resp.invoked = 0
    /\ rq.Cookies = <<BadCookie>>

\* C16: when the wrapped transport fails with an error whose text contains
\* "timeout", RoundTrip returns no error and a 504 response whose body starts
\* with the subdomain followed by " upstream timeout: "; when it fails with
\* another error, RoundTrip returns that error and no response.
C16_TimeoutAnswer ==
    [][(RoundTripReturns /\ resp'.invoked = 1 /\ rq.up # NoErr) =>
          IF Contains(rq.up, TimeoutText)
          THEN /\ resp'.resp.StatusCode = 504
               /\ resp'.err = NoErr
               /\ HasPrefix(resp'.resp.Body, rq.Subdomain \o UpstreamTimeoutText)
          ELSE /\ resp'.err = rq.up
               /\ resp'.resp = NoResponse]_vars

\* C16, the case: a response-header timeout of the upstream was answered 504.
C16_GatewayTimeout ==
    resp.state = "done" /\ resp.resp.StatusCode = 504 /\ rq.up = ErrHeaderTimeout

\* C17: every RoundTrip call adds exactly one to the subdomain's AccessCounter,
\* whatever it returns (the upstream's response, 403, 504 or an error).
C17_CountedOnce ==
    [][RoundTripReturns => Total(count') = Total(count) + 1]_vars

\* C17, the case: three calls were counted, the latest of them refused with 403.
C17_RefusedCounted ==
    resp.state = "done" /\ resp.resp.StatusCode = 403 /\ Total(count) = 3

\* ============================================================== counter claims
\* C18: what Collect reports for a bucket is the number of Add calls made for
\* that bucket since the previous Collect, however the Add and Collect calls of
\* concurrent goroutines interleave: no increment is lost or reported twice.
C18_CollectExact ==
    [][\A g \in Collectors :
          (cg[g].pc = "copy" /\ cg'[g].pc = "idle") =>
              /\ \A b \in DOMAIN collected' : collected'[b] = Get(since, b)
              /\ \A b \in DOMAIN since : Get(collected', b) = since[b]]_vars

\* C18, the case: a Collect reported the counts of two buckets, one of them
\* counted by more than one Add call.
C18_TwoBuckets ==
    /\ Cardinality(DOMAIN collected) = 2
    /\ \E b \in DOMAIN collected : collected[b] >= 2

\* C19: in a purge run, TerminateBySubdomain is called only for a subdomain
\* whose GetAccessCount returned 0 and no error; a subdomain with accesses, or
\* whose query failed, is not terminated by that run.
C19_OnlyQuiet ==
    \A w \in Workers :
        \A i \in DOMAIN pw[w].sums :
            (i \in pw[w].termd) <=> (~pw[w].sums[i].err /\ pw[w].sums[i].sum = 0)

\* C19, the case: a run skipped its first subdomain, which had accesses, and
\* called TerminateBySubdomain for its second, which had none.
C19_SkippedThenTerminated ==
    \E w \in Workers :
        /\ Len(pw[w].sums) = 2
        /\ pw[w].sums[1].sum > 0
        /\ pw[w].termd = {2}

\* ================================================================ list claims
\* C20: every task List returns carries the tag ManagedBy=Mirage (a task
\* without it never appears), and the returned sequence is sorted by subdomain
\* in ascending order.
C20_ManagedSorted ==
    listed.state = "ok" =>
        /\ \A k \in DOMAIN listed.infos : tasks[listed.infos[k]].ManagedBy = "Mirage"
        /\ \A i, j \in DOMAIN listed.infos :
              i < j => ~Less(tasks[listed.infos[j]].SubDomain, tasks[listed.infos[i]].SubDomain)

\* C20, the case: of three running tasks one is not managed by Mirage, and the
\* two that List returned come in another order than the cluster holds them.
C20_SortedTwo ==
    /\ listed.state = "ok"
    /\ Len(tasks) = 3
    /\ \E id \in DOMAIN tasks : tasks[id].ManagedBy # "Mirage"
    /\ Len(listed.infos) = 2
    /\ listed.infos[1] > listed.infos[2]
    /\ tasks[listed.infos[1]].SubDomain # tasks[listed.infos[2]].SubDomain

\* C21: List(desired_status) returns every managed task of that desired status
\* the cluster reports, whatever the paging of ListTasks, a page without ARNs
\* included.
C21_AsStated ==
    listed.state = "ok" =>
        {listed.infos[k] : k \in DOMAIN listed.infos} = Managed(RunningIds)

\* ================================================================= log claims
\* The lines GetLogEvents answered for the containers of task t of the call.
TaskFetched(t) ==
    LET cs == lc.infos[t].containers
    IN  UNION {{Events(t, cs, i)[k] : k \in DOMAIN Events(t, cs, i)} : i \in DOMAIN cs}

Fetched == UNION {TaskFetched(t) : t \in DOMAIN lc.infos}

\* C22: for tail > 0 Logs returns at most tail lines in total, whatever the
\* number of matching tasks and containers; for tail = 0 it returns all fetched
\* lines.
C22_AsStated ==
    lc.state = "returned" =>
        /\ lc.tail > 0 => Len(lc.lines) <= lc.tail
        /\ lc.tail = 0 => {lc.lines[k] : k \in DOMAIN lc.lines} = Fetched

\* ========================================================== subdomain claims
Validated == vs.state \notin {"idle", "none"}

Alphanumeric == Letters \cup Digits

\* The texts of the claim, with the first character drawn from first.
WellFormed(s, first) ==
    /\ Len(s) \in 2..63
    /\ s[1] \in first
    /\ s[Len(s)] \in Alphanumeric \cup GlobMeta
    /\ \A i \in 2..(Len(s) - 1) : s[i] \in Alphanumeric \cup GlobMeta \cup {"-"}
    /\ ~MatchErr(s)

\* The texts the specification names are accepted, or rejected, as it says.
Examples ==
    /\ vs.s \in {<<"a", "b", "c">>, <<"a", "-", "b", "-", "c">>, <<"a", "*", "c">>,
                 <<"[", "a", "b", "]", "c">>} => vs.state = "ok"
    /\ vs.s \in {<<>>, <<"a">>, <<"-", "a", "b">>, <<"a", "b", "-">>,
                 <<"a", "b", "/", "c", "d">>} => vs.state # "ok"
    /\ Len(vs.s) >= 64 => vs.state # "ok"

\* C23 as stated: validateSubdomain accepts a lowercase text exactly when it
\* has 2 to 63 characters, its first and last characters are alphanumeric or
\* glob meta-characters, its interior characters are alphanumeric, glob
\* meta-characters or '-', and it is a valid glob; and the named texts are
\* accepted and rejected as listed.
C23_AsStated ==
    Validated =>
        /\ vs.state = "ok" <=> WellFormed(vs.s, Alphanumeric \cup GlobMeta)
        /\ Examples

\* C23, amended: the same with the first character a letter or a glob
\* meta-character: a text that starts with a digit is rejected.
C23_LetterFirst ==
    Validated =>
        /\ vs.state = "ok" <=> WellFormed(vs.s, Letters \cup GlobMeta)
        /\ Examples

\* C23, the case: a text with a character class is accepted.
C23_ClassAccepted ==
    /\ vs.s = <<"[", "a", "b", "]", "c">>
    /\ vs.state = "ok"

\* ====================================================== purge request claims
\* The decimal text of a natural number.
RECURSIVE Decimal(_)
Decimal(n) ==
    IF n < 10 THEN <<DigitChars[n + 1]>>
    ELSE Decimal(n \div 10) \o <<DigitChars[(n % 10) + 1]>>

\* The request is valid in the claim's words: duration is an integer of at
\* least 300 (seconds), every exclude_tags entry has the form key:value, and
\* exclude_regexp is empty or compiles.
ValidRequest(r) ==
    /\ \E n \in 300..600 : r.Duration \in {Decimal(n), <<"+">> \o Decimal(n)}
    /\ \A i \in DOMAIN r.ExcludeTags :
          \E k \in DOMAIN r.ExcludeTags[i] : r.ExcludeTags[i][k] = ":"
    /\ r.ExcludeRegexp # <<>> => r.ExcludeRegexp \notin {<<"(">>}

\* C24: Validate returns PurgeParams only for a valid request and an error
\* without params otherwise: /api/purge answers 400 to an invalid request
\* without running a purge, an invalid purge configuration is not loaded, and
\* every purge run, from the API or from the schedule, has params with a
\* duration of at least 5 minutes that come from a valid request.
C24_OnlyValidRuns ==
    /\ pg.code = 400 => ~ValidRequest(pg.r)
    /\ (pg.code \in {200, 500}) => ValidRequest(pg.r)
    /\ (pg.state = "loaded" /\ pg.conf # NoPurgeConfig) =>
          ~pg.conf.nil /\ ValidRequest(pg.conf.Request)
    /\ pg.run.via # "none" =>
          /\ pg.run.params.ok
          /\ pg.run.params.Duration >= 300
          /\ ValidRequest(pg.run.from)
          /\ pg.run.params = ValidateRequest(pg.run.from)

\* C24, the case: with a valid purge configuration loaded, a request of 299
\* seconds has been answered 400 after a run of the schedule, which stays the
\* latest run.
C24_RefusedAfterRun ==
    /\ pg.code = 400
    /\ pg.r.Duration = <<"2", "9", "9">>
    /\ pg.run.via = "schedule"
    /\ pg.run.params.Duration = 300

\* ======================================================== conversion claims
\* The declared parameters that have a value, in declaration order.
WithValue == SelectSeq(tp.configParams, LAMBDA c : Lookup(tp.p, c.Name) # <<>>)

\* The text of the subdomain in base64url, for the subdomains of the calls.
Base64Of(s) ==
    IF s = <<"a", "b">> THEN <<"Y", "W", "I", "=">>
    ELSE IF s = <<"a", "*">> THEN <<"Y", "S", "o", "=">>
    ELSE <<"d", "G", "V", "z", "d", "H", "N", "1", "Y", "m",
           "R", "v", "b", "W", "F", "p", "b", "g", "=", "=">>

\* C25: the environment holds SUBDOMAIN (base64url of the subdomain in v1
\* compatibility mode, the plain subdomain otherwise), SUBDOMAINRAW (plain) and
\* one variable per declared parameter with a value, in declaration order; the
\* tags hold Subdomain = base64url(subdomain), ManagedBy = Mirage and one tag
\* per declared parameter with a value; a declared parameter without value
\* gives neither a variable nor a tag.
C25_EnvAndTags ==
    tp.state = "done" =>
        LET enc == IF tp.compatV1 THEN Base64Of(tp.subdomain) ELSE tp.subdomain
        IN  /\ Len(tp.kvp) = 2 + Len(WithValue)
            /\ tp.kvp[1] = [Name |-> "SUBDOMAIN", Value |-> enc]
            /\ tp.kvp[2] = [Name |-> "SUBDOMAINRAW", Value |-> tp.subdomain]
            /\ \A k \in DOMAIN WithValue :
                  tp.kvp[2 + k] = [Name |-> WithValue[k].Env, Value |-> tp.p[WithValue[k].Name]]
            /\ Len(tp.tags) = 2 + Len(WithValue)
            /\ tp.tags[1] = [Key |-> "Subdomain", Value |-> Base64Of(tp.subdomain)]
            /\ tp.tags[2] = [Key |-> "ManagedBy", Value |-> <<"M", "i", "r", "a", "g", "e">>]
            /\ \A k \in DOMAIN WithValue :
                  tp.tags[2 + k] = [Key |-> WithValue[k].Name, Value |-> tp.p[WithValue[k].Name]]
            /\ Cardinality(DOMAIN tp.env) = 2 + Len(WithValue)
            /\ tp.env["SUBDOMAIN"] = enc
            /\ tp.env["SUBDOMAINRAW"] = tp.subdomain
            /\ \A k \in DOMAIN WithValue :
                  LET n == IF WithValue[k].Env = "env2" THEN "ENV2" ELSE WithValue[k].Env
                  IN  n \in DOMAIN tp.env /\ tp.env[n] = tp.p[WithValue[k].Name]

\* C25, the case: the first case of the test with the declared parameters in
\* another order: in v1 compatibility mode, Param3 without value is left out
\* and Param2 comes before Param1.
C25_TestCaseV1 ==
    /\ tp.state = "done"
    /\ tp.compatV1
    /\ tp.subdomain = TestSubdomain
    /\ tp.configParams = <<Param3, Param2, Param1>>
    /\ tp.p = [n \in {"Param1", "Param2"} |-> IF n = "Param1" THEN Value1 ELSE Value2]
    /\ tp.kvp[3] = [Name |-> "env2", Value |-> Value2]
    /\ Len(tp.tags) = 4

\* ============================================================ query claims
\* The names of a sequence, and whether each appears once.
NamesOf(seq) == {seq[i] : i \in DOMAIN seq}

EachOnce(seq) == \A i, j \in DOMAIN seq : seq[i] = seq[j] => i = j

\* C26: after any sequence of AddSubdomain and RemoveSubdomain calls,
\* Subdomains() returns exactly the names that have an entry in the handler map,
\* each once, in the order in which they were registered: the list changes only
\* by a newly registered name joining at its end or by a removed name leaving
\* it with the others keeping their order, so re-adding a registered name does
\* not change its position.
C26_RegistrationOrder ==
    [][/\ (qr'.op = "Subdomains" /\ UNCHANGED regVars)
            => /\ NamesOf(qr'.names) = DOMAIN domainMap
               /\ EachOnce(qr'.names)
               /\ qr'.names = domains
       /\ domains' # domains
            => \E s \in Names :
                  \/ /\ ~Registered(s)
                     /\ s \in DOMAIN domainMap'
                     /\ domains' = Append(domains, s)
                  \/ /\ Registered(s)
                     /\ s \notin DOMAIN domainMap'
                     /\ domains' = Others(domains, s)
       /\ DOMAIN domainMap' # DOMAIN domainMap => domains' # domains]_vars

\* Subdomains() returned a*, ab after a* was added again later than ab was
\* registered: the handler of a* is an extended one, younger than ab's.
C26_ReAddedKeepsPlace ==
    /\ qr.op = "Subdomains"
    /\ qr.names = <<AStar, Ab>>
    /\ domains = <<AStar, Ab>>
    /\ \E p \in ListenPorts :
         \E a \in DOMAIN domainMap[AStar][p], b \in DOMAIN domainMap[Ab][p] :
          /\ domainMap[AStar][p][a].extended
          /\ domainMap[AStar][p][a].age < domainMap[Ab][p][b].age
          /\ ~domainMap[Ab][p][b].extended

\* C27: Exists(s) is true if and only if s is a registered name or some
\* registered name is a glob that matches s, whether or not a handler of that
\* name is still alive, and Exists changes nothing in the registry: no handler's
\* deadline is extended.
C27_ExistsIff ==
    [][(qr' # qr /\ qr'.op = "Exists")
          => /\ qr'.ok <=> \E n \in DOMAIN domainMap : n = qr'.s \/ Match(n, qr'.s)
             /\ UNCHANGED regVars]_vars

\* Every handler of the name n has expired, and there is one.
AllExpired(n) ==
    /\ \E p \in ListenPorts : DOMAIN domainMap[n][p] # {}
    /\ \A p \in ListenPorts : \A a \in DOMAIN domainMap[n][p] : ~alive(domainMap[n][p][a])

\* Exists(ab) was answered true through the glob a*, the only registered name,
\* whose handlers have all expired.
C27_GlobOfExpired ==
    /\ qr.op = "Exists"
    /\ qr.s = Ab
    /\ qr.ok
    /\ DOMAIN domainMap = {AStar}
    /\ AllExpired(AStar)

\* ============================================================ request claims
\* The steps in which goroutine g takes up a request (and the process is not
\* aborted) and answers it.
Arrives(g) == sv'[g] # sv[g] /\ sv'[g].status = 0 /\ ~crashed'

Responds(g) == sv[g].status = 0 /\ sv'[g].status # 0

\* C28, as the specification states it: a request on listen port p is routed by
\* the lowercased first label of its Host header; it is forwarded to an upstream
\* only when FindHandler(label, p) returns a handler, and when the name the
\* label resolves to has no handler on p that has not expired (it was never
\* registered, was removed, its handlers have all expired or are on other
\* listen ports only) FindHandler returns none and the request is answered with
\* 404 and reaches no upstream.
C28_AsStated ==
    [][\A g \in Goroutines :
          /\ Arrives(g)
                => /\ rd'[g].sub = ToLower(FirstLabel(sv'[g].host))
                   /\ rd'[g].port = sv'[g].port
          /\ (Returns(g) /\ LiveOn(rd'[g].name, rd'[g].port) = {})
                => rd'[g].rv = None
          /\ Responds(g)
                => /\ sv'[g].status = (IF rd[g].rv = None THEN 404 ELSE 200)
                   /\ sv'[g].upstream = rd[g].rv]_vars

\* ============================================================ AddSubdomain claims
\* The handlers of name s on listen port p, none when s is not registered.
HandlersOf(dm, s, p) == IF s \in DOMAIN dm THEN dm[s][p] ELSE EmptyMap

\* C29: after AddSubdomain(s, ip, targetPort) in cluster mode a live handler for
\* ip:targetPort exists under s on every listen port whose mapping has that
\* target, and no handler is created on the listen ports whose target differs;
\* in local mode a handler is created on every configured listen port whatever
\* the target port.
C29_HandlersPerMapping ==
    [][\A s \in LookupNames, in \in RegInputs :
          AddSubdomain(s, in[1], in[2]) =>
              \A i \in DOMAIN HTTP :
                  LET p == HTTP[i].ListenPort
                      before == HandlersOf(domainMap, s, p)
                      after == HandlersOf(domainMap', s, p)
                  IN  IF localMode \/ HTTP[i].TargetPort = in[2]
                      THEN /\ in \in DOMAIN after
                           /\ after[in].age < Lifetime
                      ELSE /\ DOMAIN after \subseteq DOMAIN before
                           /\ \A a \in DOMAIN after : after[a] = before[a]]_vars

\* In cluster mode ab has a live handler for ip1:81 on listen port 8081 and none
\* for it on 8080.
C29_ClusterTargetOnly ==
    /\ ~localMode
    /\ Registered(Ab)
    /\ <<"ip1", 81>> \in DOMAIN domainMap[Ab][8081]
    /\ domainMap[Ab][8081][<<"ip1", 81>>].age < Lifetime
    /\ <<"ip1", 81>> \notin DOMAIN domainMap[Ab][8080]

\* C30: AddSubdomain(s, ip, port) called when a live handler for
\* (listenPort, ip:port) exists under s keeps that handler, resets its deadline
\* to the full lifetime and adds nothing on that listen port; whether or not
\* such a handler exists, the call neither removes nor replaces a handler of s
\* for another upstream address or on a listen port it does not select, so
\* repeating the same Add leaves the set of handlers unchanged.
C30_ReAddExtends ==
    [][\A s \in LookupNames, in \in RegInputs :
          AddSubdomain(s, in[1], in[2]) =>
              \A i \in DOMAIN HTTP :
                  LET p == HTTP[i].ListenPort
                      before == HandlersOf(domainMap, s, p)
                      after == HandlersOf(domainMap', s, p)
                      selected == localMode \/ HTTP[i].TargetPort = in[2]
                  IN  /\ (selected /\ in \in DOMAIN before /\ alive(before[in]))
                            => /\ DOMAIN after = DOMAIN before
                               /\ after[in].extended
                               /\ after[in].age = 0
                               /\ alive(after[in])
                      /\ \A a \in DOMAIN before :
                            (a # in \/ ~selected) => (a \in DOMAIN after /\ after[a] = before[a])]_vars

\* In cluster mode the handler of ab for ip1:80 was extended by a repeated Add
\* while the handler for ip2:80 beside it, which has expired, was left in place.
C30_ExtendedBesideExpired ==
    /\ ~localMode
    /\ Registered(Ab)
    /\ DOMAIN domainMap[Ab][8080] = {<<"ip1", 80>>, <<"ip2", 80>>}
    /\ domainMap[Ab][8080][<<"ip1", 80>>].extended
    /\ domainMap[Ab][8080][<<"ip1", 80>>].age = 0
    /\ ~alive(domainMap[Ab][8080][<<"ip2", 80>>])

\* ============================================================ lookup claims
\* The positions of the registered names whose glob matches s.
Matching(s) == {i \in DOMAIN domains : Match(domains[i], s)}

\* C31: FindHandler(s, p) resolves s by its exact name when s is registered and
\* only otherwise by the globs, taking the first registered name, in
\* registration order, whose glob matches s; the handler it returns is one of
\* that name on p, so a request for ab with only a* registered is served by the
\* handlers of a*.
C31_ExactThenFirstGlob ==
    [][\A g \in Goroutines :
          /\ (rd[g].pc = "idle" /\ rd'[g].pc # "idle")
                => rd'[g].name =
                      (IF rd'[g].sub \in DOMAIN domainMap THEN rd'[g].sub
                       ELSE IF Matching(rd'[g].sub) = {} THEN NoName
                       ELSE domains[CHOOSE i \in Matching(rd'[g].sub) :
                                        \A j \in Matching(rd'[g].sub) : i <= j])
          /\ (Returns(g) /\ rd'[g].rv # None)
                => /\ rd'[g].name \in DOMAIN domainMap
                   /\ rd'[g].rv \in DOMAIN domainMap[rd'[g].name][rd'[g].port]]_vars

\* A lookup of ab, which is not registered, returned a handler of ?b, the
\* earlier registered of the two globs that match it.
C31_FirstOfTwoGlobs ==
    /\ domains = <<QB, AStar>>
    /\ rd["g1"].pc = "ret"
    /\ rd["g1"].sub = Ab
    /\ rd["g1"].name = QB
    /\ rd["g1"].rv = <<"ip1", 80>>

\* ============================================================ purge loop claims
\* C32: a purge loop that acquired the mutex processes every subdomain of its
\* list, also when GetAccessCount or TerminateBySubdomain fails for some of
\* them (at its end GetAccessCount was called for every subdomain and
\* TerminateBySubdomain for each one that reported no access), then releases
\* the mutex; the mutex, once held, is eventually free again, and a purge that
\* finds it free is not skipped.
C32_LoopEndsAndUnlocks ==
    /\ [][\A w \in Workers :
            /\ (pw[w].pc = "loop" /\ pw'[w].pc = "idle")
                  => /\ Len(pw[w].sums) = Len(pw[w].subdomains)
                     /\ pw[w].termd = {i \in DOMAIN pw[w].sums :
                                          ~pw[w].sums[i].err /\ pw[w].sums[i].sum = 0}
                     /\ mu /\ ~mu'
            /\ (pw[w].pc = "trylock" /\ pw'[w].pc # "trylock" /\ ~mu)
                  => pw'[w].pc = "loop" /\ ~pw'[w].skipped]_vars
    /\ (mu ~> ~mu)

\* A loop over ab, a* is at its end, the mutex still held: GetAccessCount
\* failed for ab, and TerminateBySubdomain was called for a* and left its task
\* running.
C32_EndAfterFailures ==
    \E w \in Workers :
        /\ mu
        /\ pw[w].pc = "loop"
        /\ pw[w].subdomains = <<Ab, AStar>>
        /\ pw[w].i = 3
        /\ pw[w].sums[1].err
        /\ pw[w].termd = {2}
        /\ \A i \in DOMAIN tasks : tasks[i].DesiredStatus = "RUNNING"

\* ===================================================== concurrent lookups
\* C36, as the specification states it: the handler a FindHandler call returns
\* is one whose lifetime timer has not fired at the step that fixes the result,
\* whatever other calls for the same subdomain and port are in progress.
C36_AsStated ==
    [][\A g \in Goroutines :
          (Returns(g) /\ rd'[g].rv # None)
              => ~fired(domainMap[rd'[g].name][rd'[g].port][rd'[g].rv])]_vars

\* ============================================================ purge run claims
\* The step in which the purge loop's TerminateBySubdomain call stops task i.
PurgeStops(i) ==
    /\ tb.caller \in Workers
    /\ i \in DOMAIN tasks
    /\ tasks[i].DesiredStatus = "RUNNING"
    /\ tasks'[i].DesiredStatus = "STOPPED"

\* C37, as the specification states it: every task that the purge run stops
\* satisfies ShouldBePurged itself (it carries no excluded tag and is not
\* younger than the purge duration).
C37_AsStated ==
    [][\A i \in 1..MaxTasks :
          PurgeStops(i) => ShouldBePurged(InformationOf(i), Validate(RunRequest), now)]_vars

\* C38, as the specification states it: every task that the purge run stops
\* was in the listing purge took at its start.
C38_AsStated ==
    [][\A i \in 1..MaxTasks : PurgeStops(i) => i \in pr.listing]_vars

\* ================================================== TerminateBySubdomain claims
\* The proxyRemove message of the call in progress is still in the channel.
Unreceived == \E i \in DOMAIN ch : ch[i] = RemoveMsg(tb.sub)

C40_WaitsNoRollback ==
    /\ [][(api.pc # "launch" /\ api'.pc = "launch") =>
            \/ api.pc = "idle" /\ api'.found = {}
            \/ api.pc = "terminate" /\ tb.pc = "done" /\ ~tb.err]_vars
    /\ [][Len(tasks') > Len(tasks) => (api.pc = "launch" /\ api'.pc = "launch")]_vars
    /\ [][(api.pc = "launch" /\ api'.pc = "launch" /\ api' # api) =>
            /\ \E n \in api.todo : api'.todo = api.todo \ {n}
            /\ \/ tasks' = tasks /\ api'.err
               \/ /\ api'.err = api.err
                  /\ Len(tasks') = Len(tasks) + 1
                  /\ tasks'[Len(tasks')].SubDomain = api.sub
                  /\ tasks'[Len(tasks')].DesiredStatus = "RUNNING"]_vars
    /\ [][api.pc = "launch" => \A i \in DOMAIN tasks : tasks'[i] = tasks[i]]_vars
    /\ [][(api.pc = "launch" /\ api'.pc = "idle") =>
            /\ api.todo = {}
            /\ gens' = (IF api.err THEN 0 ELSE gens + 1)
            /\ tasks' = tasks]_vars

\* C40, the case: of the two taskdefs of the first Launch call one has failed
\* to launch and the task of the other runs; Launch is about to return.
C40_OneLaunchedOneFailed ==
    /\ api.pc = "launch" /\ api.todo = {} /\ api.err
    /\ Len(api.taskdefs) = 2
    /\ Len(tasks) = 1
    /\ tasks[1].DesiredStatus = "RUNNING" /\ tasks[1].SubDomain = api.sub
====
